---- MODULE Spec2Model ----
(***************************************************************************)
(* State-machine model of sdkwa_whatsapp_chatbot: the middleware chain     *)
(* (composer.py), the session layer (session.py), update dispatch          *)
(* (whatsapp_bot.py) and the scene / stage / wizard engine (scenes/).      *)
(*                                                                         *)
(* The bot that is modelled is the one the repository's tests and examples *)
(* build: bot.use(session(store)); bot.use(stage.middleware()); then       *)
(* command handlers that drive the stage, then an on("text") handler.      *)
(* Three scenes are registered: A (BaseScene with an on("text") handler),  *)
(* B (BaseScene with a TTL and no handler chain) and W (WizardScene).      *)
(* What a user-written handler does when invoked is an input: each update  *)
(* carries a plan, a sequence of operations, and every invocation of a     *)
(* user handler consumes the next one.                                     *)
(***************************************************************************)
EXTENDS Integers, Sequences, FiniteSets, TLC

\* ---------------------------------------------------------------- bounds
NumSteps == 3        \* steps registered on the wizard W, at most
MaxTime == 1         \* event-loop clock values 0..MaxTime
MaxOps == 2          \* user-handler invocations of one update that the plan decides
TtlB == 0            \* seconds given to B.ttl(...)
MaxUpdates == 2      \* updates of a recorded conversation
MaxTurns == 3        \* updates of a run in which two conversations take turns

\* ------------------------------------------------------------ vocabulary
Chats == {"c1"}
\* A second conversation, for the runs in which two conversations take turns.
OtherChat == "c2"
TwoChats == Chats \cup {OtherChat}
\* custom_key_generator of the tests: f"custom_{ctx.chat_id}"
CustomKey(chat) == IF chat = "c1" THEN "custom_c1" ELSE "custom_"
Keys == TwoChats \cup {"default"} \cup {CustomKey(c) : c \in Chats}
Registered == {"A", "B", "W"}

\* Message texts are sequences of one-character strings; <<>> is a message
\* without text (text None, e.g. a location message).
Texts ==
  { <<>>, <<"h", "i">>, <<"/">>,
    <<"/", "a">>, <<"/", "B">>, <<"/", "w">>, <<"/", "x">>,
    <<"/", "l">>, <<"/", "r">> }

\* What one invocation of a user-written handler can do, by the kind of
\* handler: a wizard step, a scene's own handler, a handler of the outer
\* chain, the error handler.
OpsOf(kind) ==
  CASE kind = "step" ->
         {"none", "raise", "next", "nextData", "nextEmpty", "prev", "jump", "complete"}
    [] kind = "scene" -> {"none", "raise", "set", "leave", "enterB"}
    [] kind = "outer" -> {"none", "raise", "set"}
    [] kind = "catch" -> {"none", "raise"}

StoreKinds == {"memory", "file", "copy"}

\* Texts with white space: "/ a", "/a x", "/ B x", " /a", "/ab", "/ ".
SpacedTexts ==
  { <<"/", " ", "a">>, <<"/", "a", " ", "x">>, <<"/", " ", "B", " ", "x">>,
    <<" ", "/", "a">>, <<"/", "a", "b">>, <<"/", " ">> }

\* ------------------------------------------------------- session contents
\* The data argument of wizard.next: None, an empty dict, a dict with content.
Data == {"None", "{}", "{v}"}

\* state["wizard"]; present = FALSE stands for the key being absent. In
\* step_data "absent" stands for "no entry"; completed_steps is a Python list.
NoWizard ==
  [ present |-> FALSE, current_step |-> 0,
    step_data |-> [i \in 0..NumSteps |-> "absent"],
    completed_steps |-> <<>>, completed |-> FALSE ]

\* The scene-local state mapping: {} or {"wizard": {...}}.
EmptyState == [wizard |-> NoWizard]

\* session["__scene"]; id "none" stands for the key being absent.
NoSceneRec == [id |-> "none", state |-> EmptyState, entered_at |-> 0]

EmptySession == [scene |-> NoSceneRec, k |-> 0]

VARIABLES
  store,      \* SessionStore._sessions of the store given to session()
  disk,       \* FileSessionStore: content of the JSON file
  mgr,        \* bot.session_manager.store when it is another store
  storeKind,  \* which SessionStore implementation session() was given
  shared,     \* session(store=bot.session_manager.store)
  catching,   \* bot.catch(handler) was called
  chain,      \* the units registered on the bot, in registration order
  keyGenerator, \* the key_generator session() was given: "default" or "custom"
  jumpTargets, \* the indices, besides 0, that step handlers call jump_to with
  raisingLeave, \* which leave handlers of a scene raise, by position
  steps,      \* len(W.steps): how many steps were registered on the wizard W
  now,        \* asyncio event-loop time
  trace,      \* the updates handled so far, when the run is recorded
  busy,       \* handle_update has run and not yet returned to its caller
  last,       \* the update processed last: input, loaded and final session, events
  is_polling, \* bot.is_polling
  polling_task, \* bot.polling_task: the task launch_async created, 0 for None
  tasks,      \* the tasks that call start_polling, each at a suspension point
  queue,      \* the provider's pending notifications, oldest first
  sent,       \* how many notifications the provider has queued so far
  deleted,    \* per notification, the delete_notification calls that succeeded
  dispatched  \* per notification, the handle_update calls made with its body

botVars == <<store, disk, mgr, storeKind, shared, catching, chain, keyGenerator, jumpTargets, raisingLeave, steps, now, trace, busy, last>>

pollVars == <<is_polling, polling_task, tasks, queue, sent, deleted, dispatched>>

vars == <<store, disk, mgr, storeKind, shared, catching, chain, keyGenerator, jumpTargets, raisingLeave, steps, now, trace, busy, last, is_polling, polling_task, tasks, queue, sent, deleted, dispatched>>

\* ------------------------------------------------------------ scene setup
\* self._ttl is not None, and its value
HasTtl(sid) == sid = "B"
Ttl(sid) == TtlB
IsWizard(sid) == sid = "W"
NumEnter(sid) == 1
NumLeave(sid) == IF sid \in {"A", "W"} THEN 2 ELSE 1
\* Composer.handler of the scene: B registers nothing, so its handler is None.
HasHandler(sid) == sid \in {"A", "W"}

\* ------------------------------------------------------------------ text
StartsWithSlash(t) == Len(t) > 0 /\ t[1] = "/"

Lower(ch) ==
  CASE ch = "A" -> "a" [] ch = "B" -> "b" [] ch = "W" -> "w"
    [] ch = "X" -> "x" [] ch = "L" -> "l" [] ch = "R" -> "r"
    [] ch = "H" -> "h" [] ch = "I" -> "i"
    [] OTHER -> ch

LowerAll(t) == [i \in 1..Len(t) |-> Lower(t[i])]

RECURSIVE LStrip(_)
LStrip(t) == IF t # <<>> /\ Head(t) = " " THEN LStrip(Tail(t)) ELSE t

RECURSIVE TakeWord(_)
TakeWord(t) ==
  IF t = <<>> \/ Head(t) = " " THEN <<>> ELSE <<Head(t)>> \o TakeWord(Tail(t))

\* text[1:].split(): whether it has a first element, and that element.
HasToken(t) == LStrip(Tail(t)) # <<>>
FirstToken(t) == TakeWord(LStrip(Tail(t)))

\* str.split(): the whitespace-delimited tokens, in order.
RECURSIVE Split(_)
Split(t) ==
  LET s == LStrip(t)
      w == TakeWord(s)
  IN IF s = <<>> THEN <<>> ELSE <<w>> \o Split(SubSeq(s, Len(w) + 1, Len(s)))

\* Context.get_command(): None ("none") unless the text starts with "/".
GetCommand(t) == IF StartsWithSlash(t) THEN LowerAll(Split(Tail(t))[1]) ELSE "none"

\* Context.get_command() raises IndexError: text[1:].split() is empty.
GetCommandRaises(t) == StartsWithSlash(t) /\ Split(Tail(t)) = <<>>

\* Context.get_command_args()
GetCommandArgs(t) == IF StartsWithSlash(t) THEN Tail(Split(t)) ELSE <<>>

\* re.compile(trigger, re.IGNORECASE).search(text) for a trigger without
\* special characters: where the leftmost occurrence starts, 0 when there is
\* none.
Occurs(p, t, at) ==
  at + Len(p) - 1 <= Len(t) /\ LowerAll(SubSeq(t, at, at + Len(p) - 1)) = LowerAll(p)

Search(p, t) ==
  IF \E at \in 1..(Len(t) + 1) : Occurs(p, t, at)
  THEN CHOOSE at \in 1..(Len(t) + 1) :
         Occurs(p, t, at) /\ \A b \in 1..(at - 1) : ~Occurs(p, t, b)
  ELSE 0

\* ctx.match: None, or the match of a pattern (which one, where it starts,
\* what it matched).
NoMatch == [pattern |-> 0, start |-> 0, group |-> <<>>]

\* ------------------------------------------------- the processing machine
\* m is the Context of the update being processed together with what its
\* handlers can reach: ctx.session (sess), ctx.scene (scene), the stores, the
\* rest of the plan, the events so far, and whether an exception is
\* propagating (err). An event records what happened (ev, who, i, and arg,
\* the argument of a call) and what ctx.session and ctx.scene were at that
\* moment.
EmitArg(m, ev, who, i, arg) ==
  [m EXCEPT !.log = Append(@, [ev |-> ev, who |-> who, i |-> i, arg |-> arg,
                               sess |-> m.sess, scene |-> m.scene, match |-> m.match])]

Emit(m, ev, who, i) == EmitArg(m, ev, who, i, "")

Raise(m) == [m EXCEPT !.err = TRUE]

\* In-place mutation of the dict ctx.session: a store that kept a reference to
\* that dict sees it.
Write(m, s) ==
  [m EXCEPT !.sess = s,
            !.store = IF m.aliased THEN [@ EXCEPT ![m.key] = s] ELSE @]

NextOp(m) == IF m.plan = <<>> THEN "none" ELSE Head(m.plan)
Consume(m, kind) ==
  [m EXCEPT !.plan = IF @ = <<>> THEN @ ELSE Tail(@),
            !.calls = @ + 1,
            !.asked = IF m.plan = <<>> /\ @ = "none" THEN kind ELSE @]

\* Statements run one after another: in The({F(x) : x \in {e}}) the value of
\* e is computed once and F continues from it.
The(S) == CHOOSE x \in S : TRUE

\* The enter or leave handlers of a scene, called in registration order; a
\* handler that raises ends the loop.
RECURSIVE RunHandlers(_, _, _, _, _)
RunHandlers(m, ev, sid, i, n) ==
  IF m.err \/ i > n THEN m
  ELSE The({RunHandlers(IF ev = "leaveH" /\ i \in raisingLeave THEN Raise(m1) ELSE m1,
                        ev, sid, i + 1, n) :
              m1 \in {Emit(m, ev, sid, i)}})

\* --------------------------------------------------------------- BaseScene
\* Mutation of BaseEnterScene: the enter handlers are not run.
BaseEnterSceneNoHandlers(m, sid) ==
  LET rec == [id |-> sid, state |-> EmptyState, entered_at |-> m.time]
  IN Write([m EXCEPT !.scene = sid], [m.sess EXCEPT !.scene = rec])

BaseEnterScene(m, sid) ==
  LET rec == [id |-> sid, state |-> EmptyState, entered_at |-> m.time]
  IN The({RunHandlers(m1, "enterH", sid, 1, NumEnter(sid)) :
            m1 \in {Write([m EXCEPT !.scene = sid], [m.sess EXCEPT !.scene = rec])}})

\* Mutation of LeaveScene: the record is deleted and ctx.scene cleared also
\* when a leave handler raised.
LeaveSceneAlwaysClears(m, sid) ==
  The({[Write(m1, [m1.sess EXCEPT !.scene = NoSceneRec]) EXCEPT !.scene = "none"] :
         m1 \in {RunHandlers(m, "leaveH", sid, 1, NumLeave(sid))}})

LeaveScene(m, sid) ==
  The({IF m1.err THEN m1
       ELSE [Write(m1, [m1.sess EXCEPT !.scene = NoSceneRec]) EXCEPT !.scene = "none"] :
         m1 \in {RunHandlers(m, "leaveH", sid, 1, NumLeave(sid))}})

\* Mutation of IsActive: the scene expires as soon as its TTL is reached.
IsActiveExpiresEarly(sid, sess, time) ==
  /\ sess.scene.id # "none"
  /\ sess.scene.id = sid
  /\ ~(HasTtl(sid) /\ time - sess.scene.entered_at >= Ttl(sid))

\* Mutation of IsActive: the TTL is not looked at.
IsActiveIgnoresTtl(sid, sess, time) ==
  /\ sess.scene.id # "none"
  /\ sess.scene.id = sid

IsActive(sid, sess, time) ==
  /\ sess.scene.id # "none"
  /\ sess.scene.id = sid
  /\ ~(HasTtl(sid) /\ time - sess.scene.entered_at > Ttl(sid))

GetState(m, sid) ==
  IF m.sess.scene.id # "none" /\ m.sess.scene.id = sid
  THEN m.sess.scene.state ELSE EmptyState

SetState(m, sid, st) ==
  LET rec == IF m.sess.scene.id = "none" \/ m.sess.scene.id # sid
             THEN [id |-> sid, state |-> EmptyState, entered_at |-> m.time]
             ELSE m.sess.scene
  IN Write(m, [m.sess EXCEPT !.scene = [rec EXCEPT !.state = st]])

\* update_state(ctx, updates) with updates = {"wizard": ws}
UpdateState(m, sid, ws) ==
  The({SetState(m, sid, [cur EXCEPT !.wizard = ws]) : cur \in {GetState(m, sid)}})

\* ------------------------------------------------------------- WizardScene
GetWizardState(m, sid) == GetState(m, sid).wizard

PutWizardState(m, sid, ws) ==
  SetState(m, sid, [GetState(m, sid) EXCEPT !.wizard = ws])

\* get_step_data(ctx, k): a step without recorded data reads as the empty dict.
GetStepData(ws, k) ==
  IF ~ws.present \/ ws.step_data[k] = "absent" THEN "{}" ELSE ws.step_data[k]

\* Mutation of CompleteWizard: the wizard is marked completed and not left.
CompleteWizardNoLeave(m, sid) ==
  The({PutWizardState(m0, sid, [GetWizardState(m0, sid) EXCEPT
                                  !.present = TRUE, !.completed = TRUE]) :
         m0 \in {Emit(m, "complete", sid, 0)}})

CompleteWizard(m, sid) ==
  The({LeaveScene(m1, sid) :
         m1 \in {PutWizardState(m0, sid, [GetWizardState(m0, sid) EXCEPT
                                            !.present = TRUE, !.completed = TRUE]) :
                   m0 \in {Emit(m, "complete", sid, 0)}}})

RECURSIVE ExecuteCurrentStep(_, _)
RECURSIVE StageEnter(_, _)

\* The return value of a navigation call; an exception propagating returns none.
Returns(m, value) == IF m.err THEN m ELSE [m EXCEPT !.ret = value]

\* "if data:" is the truth value of the argument.
Truthy(data) == data \notin {"None", "{}"}

\* Mutation of NextStep: the step moved to is not executed; it waits for the
\* next message.
NextStepDeferred(m, sid, data) ==
  The({LET ws == GetWizardState(m0, sid)
           cur == ws.current_step
           done == ws.completed_steps
           ws1 == [ws EXCEPT
                     !.step_data[cur] = IF Truthy(data) THEN data ELSE @,
                     !.completed_steps =
                        IF \E j \in 1..Len(done) : done[j] = cur THEN done
                        ELSE Append(done, cur),
                     !.current_step = cur + 1]
       IN IF ~ws.present THEN Raise(m0)
          ELSE The({IF ws1.current_step < steps THEN m1
                    ELSE CompleteWizard(m1, sid) :
                      m1 \in {PutWizardState(m0, sid, ws1)}}) :
         m0 \in {EmitArg(m, "next", sid, 0, data)}})

NextStep(m, sid, data) ==
  The({LET ws == GetWizardState(m0, sid)
           cur == ws.current_step
           done == ws.completed_steps
           ws1 == [ws EXCEPT
                     !.step_data[cur] = IF Truthy(data) THEN data ELSE @,
                     !.completed_steps =
                        IF \E j \in 1..Len(done) : done[j] = cur THEN done
                        ELSE Append(done, cur),
                     !.current_step = cur + 1]
       IN IF ~ws.present THEN Raise(m0)
          ELSE The({IF ws1.current_step < steps
                    THEN Returns(ExecuteCurrentStep(m1, sid), "True")
                    ELSE Returns(CompleteWizard(m1, sid), "False") :
                      m1 \in {PutWizardState(m0, sid, ws1)}}) :
         m0 \in {EmitArg(m, "next", sid, 0, data)}})

\* Mutation of PreviousStep: going back forgets the data of the step gone
\* back from.
PreviousStepForgets(m, sid) ==
  The({LET ws == GetWizardState(m0, sid)
       IN IF ~ws.present THEN Raise(m0)
          ELSE IF ws.current_step > 0
               THEN The({Returns(ExecuteCurrentStep(m1, sid), "True") :
                           m1 \in {PutWizardState(m0, sid,
                                     [ws EXCEPT !.current_step = @ - 1,
                                                !.step_data[ws.current_step] = "absent"])}})
          ELSE Returns(m0, "False") :
         m0 \in {Emit(m, "prev", sid, 0)}})

PreviousStep(m, sid) ==
  The({LET ws == GetWizardState(m0, sid)
       IN IF ~ws.present THEN Raise(m0)
          ELSE IF ws.current_step > 0
               THEN The({Returns(ExecuteCurrentStep(m1, sid), "True") :
                           m1 \in {PutWizardState(m0, sid, [ws EXCEPT !.current_step = @ - 1])}})
          ELSE Returns(m0, "False") :
         m0 \in {Emit(m, "prev", sid, 0)}})

\* Mutation of JumpToStep: the index one past the last step is accepted.
JumpToStepInclusive(m, sid, idx) ==
  The({LET ws == GetWizardState(m0, sid)
       IN IF 0 <= idx /\ idx <= steps
          THEN The({Returns(ExecuteCurrentStep(m1, sid), "True") :
                      m1 \in {PutWizardState(m0, sid, [ws EXCEPT !.present = TRUE,
                                                                 !.current_step = idx])}})
          ELSE Returns(m0, "False") :
         m0 \in {Emit(m, "jump", sid, idx)}})

JumpToStep(m, sid, idx) ==
  The({LET ws == GetWizardState(m0, sid)
       IN IF 0 <= idx /\ idx < steps
          THEN The({Returns(ExecuteCurrentStep(m1, sid), "True") :
                      m1 \in {PutWizardState(m0, sid, [ws EXCEPT !.present = TRUE,
                                                                 !.current_step = idx])}})
          ELSE Returns(m0, "False") :
         m0 \in {Emit(m, "jump", sid, idx)}})

\* jump_to(i) with an index other than 0: before the first step, the last
\* step, past the last step.
JumpIndex(op) ==
  CASE op = "jumpBefore" -> -1
    [] op = "jumpLast" -> NumSteps - 1
    [] op = "jumpPast" -> NumSteps

FarJumps == {"jumpBefore", "jumpLast", "jumpPast"}

\* What a user-written handler does in one invocation. wiz is the wizard whose
\* step this is ("none" when the handler is no wizard step: it then has no
\* ctx.wizard to navigate with).
ApplyOp(m, op, wiz) ==
  CASE op = "raise" -> Raise(m)
    [] op = "set" -> Write(m, [m.sess EXCEPT !.k = 1 - @])
    [] op = "leave" -> IF m.scene # "none" THEN LeaveScene(m, m.scene) ELSE m
    [] op = "enterB" -> StageEnter(m, "B")
    [] op = "next" /\ wiz # "none" -> NextStep(m, wiz, "None")
    [] op = "nextData" /\ wiz # "none" -> NextStep(m, wiz, "{v}")
    [] op = "nextEmpty" /\ wiz # "none" -> NextStep(m, wiz, "{}")
    [] op = "prev" /\ wiz # "none" -> PreviousStep(m, wiz)
    [] op = "jump" /\ wiz # "none" -> JumpToStep(m, wiz, 0)
    [] op \in FarJumps /\ wiz # "none" -> JumpToStep(m, wiz, JumpIndex(op))
    [] op = "complete" /\ wiz # "none" -> CompleteWizard(m, wiz)
    [] OTHER -> m

\* One invocation of a user-written handler: it is logged and does the next
\* operation of the plan.
UserHandler(m, ev, who, i, wiz) ==
  The({ApplyOp(m1, op, wiz) :
         m1 \in {Emit(Consume(m, ev), ev, who, i)}, op \in {NextOp(m)}})

ExecuteCurrentStep(m, sid) ==
  LET ws == GetWizardState(m, sid)
  IN IF m.err THEN m
     ELSE IF ~ws.present THEN Raise(m)
     ELSE IF ws.current_step < steps
          THEN UserHandler(m, "step", sid, ws.current_step, sid)
     ELSE m

\* Mutation of WizardEnterScene: step 0 waits for the next message.
WizardEnterSceneNoStep(m, sid) ==
  The({IF m1.err THEN m1
       ELSE PutWizardState(m1, sid, [NoWizard EXCEPT !.present = TRUE]) :
         m1 \in {BaseEnterScene(m, sid)}})

WizardEnterScene(m, sid) ==
  The({IF m1.err THEN m1
       ELSE The({ExecuteCurrentStep(m2, sid) :
                   m2 \in {PutWizardState(m1, sid, [NoWizard EXCEPT !.present = TRUE])}}) :
         m1 \in {BaseEnterScene(m, sid)}})

\* Mutation of HandleWizardMessage: a message past the last step completes the
\* wizard.
HandleWizardMessageAutoComplete(m, sid) ==
  LET ws == GetWizardState(m, sid)
      nxt == (IF ws.present THEN ws.current_step ELSE 0) + 1
      ws1 == [ws EXCEPT !.present = TRUE, !.current_step = nxt]
  IN IF StartsWithSlash(m.text) THEN m
     ELSE IF nxt < steps
          THEN The({ExecuteCurrentStep(m1, sid) : m1 \in {PutWizardState(m, sid, ws1)}})
     ELSE CompleteWizard(m, sid)

\* Mutation of HandleWizardMessage: the step handler runs before the index is
\* advanced, so it is the handler of the step being answered.
HandleWizardMessageLate(m, sid) ==
  LET ws == GetWizardState(m, sid)
      nxt == (IF ws.present THEN ws.current_step ELSE 0) + 1
  IN IF StartsWithSlash(m.text) THEN m
     ELSE IF nxt < steps
          THEN The({IF m1.err THEN m1
                    ELSE PutWizardState(m1, sid, [GetWizardState(m1, sid) EXCEPT
                                                    !.present = TRUE, !.current_step = nxt]) :
                      m1 \in {ExecuteCurrentStep(m, sid)}})
     ELSE m

\* Mutation of HandleWizardMessage: a message past the last step runs the last
\* step's handler again.
HandleWizardMessageRepeatsLast(m, sid) ==
  LET ws == GetWizardState(m, sid)
      nxt == (IF ws.present THEN ws.current_step ELSE 0) + 1
      ws1 == [ws EXCEPT !.present = TRUE, !.current_step = nxt]
  IN IF StartsWithSlash(m.text) THEN m
     ELSE IF nxt < steps
          THEN The({ExecuteCurrentStep(m1, sid) : m1 \in {PutWizardState(m, sid, ws1)}})
     ELSE ExecuteCurrentStep(m, sid)

HandleWizardMessage(m, sid) ==
  LET ws == GetWizardState(m, sid)
      nxt == (IF ws.present THEN ws.current_step ELSE 0) + 1
      ws1 == [ws EXCEPT !.present = TRUE, !.current_step = nxt]
  IN IF StartsWithSlash(m.text) THEN m
     ELSE IF nxt < steps
          THEN The({ExecuteCurrentStep(m1, sid) : m1 \in {PutWizardState(m, sid, ws1)}})
     ELSE m

\* ------------------------------------------------------------------- Stage
EnterScene(m, sid) ==
  IF IsWizard(sid) THEN WizardEnterScene(m, sid) ELSE BaseEnterScene(m, sid)

\* Mutation of StageEnter: the current scene is left before the scene is looked up.
StageEnterLeavesFirst(m, sid) ==
  The({The({IF m1.err THEN m1
            ELSE IF sid \notin Registered THEN Emit(m1, "refused", sid, 0)
            ELSE The({IF m2.err THEN m2 ELSE Emit(m2, "entered", sid, 0) :
                        m2 \in {EnterScene(m1, sid)}}) :
              m1 \in {IF m0.scene # "none" THEN LeaveScene(m0, m0.scene) ELSE m0}}) :
         m0 \in {Emit(m, "enter", sid, 0)}})

\* Mutation of StageEnter: the scene is entered without leaving the current one.
StageEnterNoLeave(m, sid) ==
  The({IF sid \notin Registered THEN Emit(m0, "refused", sid, 0)
       ELSE The({IF m2.err THEN m2 ELSE Emit(m2, "entered", sid, 0) :
                   m2 \in {EnterScene(m0, sid)}}) :
         m0 \in {Emit(m, "enter", sid, 0)}})

\* The events "enter" and "entered" (return True) or "refused" (return False)
\* bracket the call.
StageEnter(m, sid) ==
  The({IF sid \notin Registered THEN Emit(m0, "refused", sid, 0)
       ELSE The({IF m1.err THEN m1
                 ELSE The({IF m2.err THEN m2 ELSE Emit(m2, "entered", sid, 0) :
                             m2 \in {EnterScene(m1, sid)}}) :
                   m1 \in {IF m0.scene # "none" THEN LeaveScene(m0, m0.scene) ELSE m0}}) :
         m0 \in {Emit(m, "enter", sid, 0)}})

\* Mutation of StageLeave: the leave handlers run but the record is kept.
StageLeaveKeepsRecord(m) ==
  The({IF m0.scene # "none" THEN RunHandlers(m0, "leaveH", m0.scene, 1, NumLeave(m0.scene)) ELSE m0 :
         m0 \in {Emit(m, "leave", m.scene, 0)}})

\* The event "leave" carries ctx.scene at the call: the call returns True
\* when that is a scene and False when it is None.
StageLeave(m) ==
  The({IF m0.scene # "none" THEN LeaveScene(m0, m0.scene) ELSE m0 :
         m0 \in {Emit(m, "leave", m.scene, 0)}})

\* Mutation of StageReenter: the scene is entered as a plain scene, whatever
\* its class.
StageReenterAsBase(m) ==
  The({IF m0.scene = "none" THEN m0
       ELSE The({IF m1.err THEN m1 ELSE BaseEnterScene(m1, m0.scene) :
                   m1 \in {LeaveScene(m0, m0.scene)}}) :
         m0 \in {Emit(m, "reenter", m.scene, 0)}})

\* scene.reenter(ctx) is self.leave_scene(ctx), then self.enter_scene(ctx) of
\* the scene's own class.
StageReenter(m) ==
  The({IF m0.scene = "none" THEN m0
       ELSE The({IF m1.err THEN m1 ELSE EnterScene(m1, m0.scene) :
                   m1 \in {LeaveScene(m0, m0.scene)}}) :
         m0 \in {Emit(m, "reenter", m.scene, 0)}})

\* scene.reenter(ctx) called on the scene sid.
Reenter(m, sid) ==
  The({IF m1.err THEN m1 ELSE EnterScene(m1, sid) : m1 \in {LeaveScene(m, sid)}})

\* stage.reset_scene(ctx)
ResetScene(m) ==
  [Write(m, [m.sess EXCEPT !.scene = NoSceneRec]) EXCEPT !.scene = "none"]

GetCurrentScene(sess, time) ==
  IF sess.scene.id = "none" THEN "none"
  ELSE IF sess.scene.id \in Registered /\ IsActive(sess.scene.id, sess, time)
       THEN sess.scene.id
  ELSE "none"

\* ---------------------------------------------------------------- Composer
\* mount(update_types, handler): the three branches that call the handler.
\* Every update of the model carries a message (hasMessage), and
\* hasattr(ctx.message, "text") is true of every Message.
MountMatches(types, m) ==
  \/ m.type \in types
  \/ "message" \in types /\ m.hasMessage
  \/ "text" \in types /\ m.hasMessage

CommandMatches(names, m) ==
  /\ StartsWithSlash(m.text)
  /\ LowerAll(FirstToken(m.text)) \in {LowerAll(n) : n \in names}

\* The scene's own chain (Composer.handler of the scene).
SceneHandler(m, sid) ==
  CASE sid = "A" ->
         IF MountMatches({"text"}, m) THEN UserHandler(m, "scene", "A", 0, "none") ELSE m
    [] sid = "W" ->
         IF MountMatches({"message"}, m) THEN HandleWizardMessage(m, "W") ELSE m
    [] OTHER -> m

\* Mutation of StageMiddleware: a record that names no current scene is
\* deleted from the session.
StageMiddlewareCleansUp(m) ==
  LET cur == GetCurrentScene(m.sess, m.time)
      m1 == [m EXCEPT !.routed = cur, !.scene = IF cur # "none" THEN cur ELSE @]
  IN IF cur # "none" /\ HasHandler(cur)
     THEN SceneHandler([m1 EXCEPT !.handled = TRUE], cur)
     ELSE IF cur = "none" THEN Write(m1, [m1.sess EXCEPT !.scene = NoSceneRec])
     ELSE m1

StageMiddleware(m) ==
  LET cur == GetCurrentScene(m.sess, m.time)
      m1 == [m EXCEPT !.routed = cur, !.scene = IF cur # "none" THEN cur ELSE @]
  IN IF cur # "none" /\ HasHandler(cur)
     THEN SceneHandler([m1 EXCEPT !.handled = TRUE], cur)
     ELSE m1

\* ----------------------------------------------------------------- session
StoreSet(m, key, s) ==
  LET st == [m.store EXCEPT ![key] = s]
  IN [m EXCEPT !.store = st,
               !.disk = IF storeKind = "file" THEN st ELSE @,
               !.aliased = storeKind # "copy"]

SessionKey(chat) == IF chat # "" THEN chat ELSE "default"

\* key_generator(ctx): the default one unless session() was given another.
KeyGenerator(chat) == IF keyGenerator = "custom" THEN CustomKey(chat) ELSE SessionKey(chat)

\* Mutation of SessionMiddleware: every conversation loads and saves the
\* session kept under one key.
SessionMiddlewareOneKey(m) ==
  LET key == "default"
      loaded == m.store[key]
  IN StoreSet([m EXCEPT !.key = key, !.sess = loaded, !.before = loaded], key, loaded)

SessionMiddleware(m) ==
  LET key == KeyGenerator(m.chat)
      loaded == m.store[key]
  IN StoreSet([m EXCEPT !.key = key, !.sess = loaded, !.before = loaded], key, loaded)

\* --------------------------------------------------------------- the chain
Command(m, names, who) ==
  IF ~StartsWithSlash(m.text) THEN m
  ELSE IF ~HasToken(m.text) THEN Raise(m)
  ELSE IF ~CommandMatches(names, m) THEN m
  ELSE The({CASE who = "cmd_a" -> StageEnter(m1, "A")
              [] who = "cmd_b" -> StageEnter(m1, "B")
              [] who = "cmd_w" -> StageEnter(m1, "W")
              [] who = "cmd_x" -> StageEnter(m1, "X")
              [] who = "cmd_l" -> StageLeave(m1)
              [] who = "cmd_r" -> StageReenter(m1) :
                m1 \in {Emit(m, "outer", who, 0)}})

CommandNames(unit) ==
  CASE unit = "cmd_a" -> {<<"a">>}
    [] unit = "cmd_b" -> {<<"b">>}
    [] unit = "cmd_w" -> {<<"w">>}
    [] unit = "cmd_x" -> {<<"x">>}
    [] unit = "cmd_l" -> {<<"l">>}
    [] unit = "cmd_r" -> {<<"r">>}

\* hears_handler: the patterns are tried in registration order; the first
\* that matches sets ctx.match, the handler runs, and the loop ends.
\* Mutation of HearsLoop: the loop goes on after a match.
RECURSIVE HearsLoopNoBreak(_, _, _, _)
HearsLoopNoBreak(m, triggers, who, k) ==
  IF k > Len(triggers) \/ m.err THEN m
  ELSE The({IF at = 0 THEN HearsLoopNoBreak(m, triggers, who, k + 1)
            ELSE The({HearsLoopNoBreak(m1, triggers, who, k + 1) :
                        m1 \in {UserHandler([m EXCEPT !.match =
                                               [pattern |-> k, start |-> at,
                                                group |-> SubSeq(m.text, at, at + Len(triggers[k]) - 1)]],
                                            "outer", who, k, "none")}}) :
              at \in {Search(triggers[k], m.text)}})

RECURSIVE HearsLoop(_, _, _, _)
HearsLoop(m, triggers, who, k) ==
  IF k > Len(triggers) THEN m
  ELSE The({IF at = 0 THEN HearsLoop(m, triggers, who, k + 1)
            ELSE UserHandler([m EXCEPT !.match =
                                [pattern |-> k, start |-> at,
                                 group |-> SubSeq(m.text, at, at + Len(triggers[k]) - 1)]],
                             "outer", who, k, "none") :
              at \in {Search(triggers[k], m.text)}})

\* hears_middleware(triggers, handler)
Hears(m, triggers, who) ==
  IF m.hasMessage /\ m.text # <<>> THEN HearsLoop(m, triggers, who, 1) ELSE m

\* bot.hears(["i", "h", "b"]): "hi" holds the first two, "/B" the third.
HearsTriggers == << <<"i">>, <<"h">>, <<"b">> >>

\* The predicate given to filter and drop: the message is no command.
NoCommand(m) == ~StartsWithSlash(m.text)

\* filter_handler: the predicate is evaluated; nothing depends on its value.
FilterMiddleware(m) == IF NoCommand(m) THEN m ELSE m

\* composer.filter(predicate) on a composer holding units: use(filter_middleware).
Filter(units) == [raised |-> FALSE, units |-> Append(units, "filter")]

\* composer.drop(predicate): self.drop_middleware does not exist, so the call
\* raises AttributeError before anything is registered.
Drop(units) == [raised |-> TRUE, units |-> units]

OuterChain ==
  << "session", "stage", "cmd_a", "cmd_b", "cmd_w", "cmd_x", "cmd_l", "cmd_r", "track" >>

RunUnit(m, unit) ==
  CASE unit = "session" -> SessionMiddleware(m)
    [] unit = "stage" -> StageMiddleware(m)
    [] unit = "track" ->
         IF MountMatches({"text"}, m) THEN UserHandler(m, "outer", "track", 0, "none") ELSE m
    [] unit = "hears" -> Hears(m, HearsTriggers, "hears")
    [] unit = "filter" -> FilterMiddleware(m)
    [] OTHER -> Command(m, CommandNames(unit), unit)

\* A call of the unit: m.ran lists the units called so far.
CallUnit(m, unit) ==
  The({RunUnit(m1, unit) : m1 \in {[m EXCEPT !.ran = Append(@, unit)]}})

\* Mutation of Compose: the loop ends with the first unit whose handler ran.
RECURSIVE ComposeUntilHandled(_, _)
ComposeUntilHandled(m, units) ==
  IF units = <<>> \/ m.err THEN m
  ELSE The({IF Len(m1.log) > Len(m.log) THEN m1 ELSE ComposeUntilHandled(m1, rest) :
              m1 \in {CallUnit(m, Head(units))}, rest \in {Tail(units)}})

\* composed_handler: every unit in registration order, each called with ctx
\* alone; an exception ends the loop.
RECURSIVE Compose(_, _)
Compose(m, units) ==
  IF units = <<>> \/ m.err THEN m
  ELSE The({Compose(m1, rest) : m1 \in {CallUnit(m, Head(units))}, rest \in {Tail(units)}})

\* A handler is a unit or the composed_handler of a sequence of handlers.
Unit(name) == [kind |-> "unit", name |-> name, of |-> <<>>]

\* Composer.compose(*handlers), one handler at least: a single handler is
\* returned as it is.
ComposeOf(hs) ==
  IF Len(hs) = 1 THEN hs[1] ELSE [kind |-> "compose", name |-> "", of |-> hs]

\* Composer().use(h1).use(h2)...: each call composes the handler so far with
\* the new one.
RECURSIVE Use(_, _)
Use(handler, hs) ==
  IF hs = <<>> THEN handler ELSE Use(ComposeOf(<<handler, Head(hs)>>), Tail(hs))

\* Calling a handler: a unit, or the loop of a composed_handler.
RECURSIVE CallHandler(_, _)
RECURSIVE ComposedHandler(_, _)
CallHandler(m, h) ==
  IF h.kind = "unit" THEN CallUnit(m, h.name) ELSE ComposedHandler(m, h.of)

ComposedHandler(m, hs) ==
  IF hs = <<>> \/ m.err THEN m
  ELSE The({ComposedHandler(m1, rest) : m1 \in {CallHandler(m, Head(hs))}, rest \in {Tail(hs)}})

\* ----------------------------------------------------------- handle_update
NewContext(c, t, plan) ==
  [ chat |-> c, text |-> t, type |-> "message", hasMessage |-> TRUE,
    time |-> now, key |-> KeyGenerator(c),
    sess |-> EmptySession, before |-> EmptySession, scene |-> "none", match |-> NoMatch,
    handled |-> FALSE, routed |-> "none",
    log |-> <<>>, ran |-> <<>>, err |-> FALSE, raised |-> FALSE, plan |-> plan, calls |-> 0,
    asked |-> "none", ret |-> "none",
    store |-> store, disk |-> disk, mgr |-> mgr, aliased |-> FALSE ]

\* Mutation of SaveSession: the session is saved under every key of the store.
SaveSessionEveryKey(m) ==
  IF m.chat = "" THEN m
  ELSE IF shared
       THEN [m EXCEPT !.store = [k \in Keys |-> m.sess],
                      !.disk = IF storeKind = "file" THEN [k \in Keys |-> m.sess] ELSE @]
  ELSE [m EXCEPT !.mgr = [k \in Keys |-> m.sess]]

\* self.session_manager.set_session(session_key, ctx.session), if ctx.chat_id
SaveSession(m) ==
  IF m.chat = "" THEN m
  ELSE IF shared THEN StoreSet(m, m.chat, m.sess)
  ELSE [m EXCEPT !.mgr[m.chat] = m.sess]

\* Mutation of CallErrorHandler: an exception of the error handler is not caught.
CallErrorHandlerUncaught(m) ==
  The({IF NextOp(m) = "raise" THEN Raise(m1) ELSE m1 :
         m1 \in {Emit(Consume(m, "catch"), "catch", "error_handler", 0)}})

CallErrorHandler(m) ==
  The({IF NextOp(m) = "raise" THEN Emit(m1, "logged", "handler_error", 0) ELSE m1 :
         m1 \in {Emit(Consume(m, "catch"), "catch", "error_handler", 0)}})

\* Mutation of HandleError: the except path does not save the session.
HandleErrorNoSave(m) ==
  The({IF catching THEN CallErrorHandler(m1) ELSE Emit(m1, "logged", "unhandled", 0) :
         m1 \in {[m EXCEPT !.err = FALSE, !.raised = TRUE]}})

HandleError(m) ==
  The({SaveSession(m2) :
         m2 \in {IF catching THEN CallErrorHandler(m1) ELSE Emit(m1, "logged", "unhandled", 0) :
                   m1 \in {[m EXCEPT !.err = FALSE, !.raised = TRUE]}}})

Process(m) ==
  The({IF m1.err THEN HandleError(m1) ELSE SaveSession(m1) :
         m1 \in {Compose(m, chain)}})

\* What a handler of the given kind can do in this bot.
Ops(kind) ==
  IF kind = "step"
  THEN OpsOf(kind) \cup {op \in FarJumps : JumpIndex(op) \in jumpTargets}
  ELSE OpsOf(kind)

\* ------------------------------------------------------------------ actions
NoUpdate ==
  [ chat |-> "", text |-> <<>>, key |-> "default", time |-> 0,
    before |-> EmptySession, after |-> EmptySession, scene |-> "none",
    routed |-> "none", handled |-> FALSE, log |-> <<>>,
    raised |-> FALSE, escaped |-> FALSE ]

\* The bounds of the polling runs: the tasks that call start_polling, the
\* notifications the provider queues, and where the call counters saturate.
MaxTasks == 2
MaxNotifications == 2
MaxCount == 2

PollTasks == 1..MaxTasks
Notifications == 1..MaxNotifications

\* A task that has not been created.
NoTask ==
  [ pc |-> "none", wait |-> "none", cancelled |-> FALSE, update |-> 0,
    failed |-> FALSE, halted |-> FALSE, fetched |-> FALSE ]

\* WhatsAppBot.__init__: is_polling = False, polling_task = None.
NotPolling ==
  /\ is_polling = FALSE
  /\ polling_task = 0
  /\ tasks = [t \in PollTasks |-> NoTask]
  /\ queue = <<>>
  /\ sent = 0
  /\ deleted = [n \in Notifications |-> 0]
  /\ dispatched = [n \in Notifications |-> 0]

InitWith(kinds, sharing, catchers, counts) ==
  /\ store = [key \in Keys |-> EmptySession]
  /\ disk = [key \in Keys |-> EmptySession]
  /\ mgr = [key \in Keys |-> EmptySession]
  /\ storeKind \in kinds
  /\ shared \in sharing
  /\ catching \in catchers
  /\ steps \in counts
  /\ now = 0
  /\ trace = <<>>
  /\ busy = FALSE
  /\ last = NoUpdate
  /\ NotPolling

Init == InitWith({"memory"}, {TRUE}, BOOLEAN, {NumSteps}) /\ chain = OuterChain /\ keyGenerator = "default" /\ jumpTargets = {} /\ raisingLeave = {}

\* What processing the update can end as, over the plans that differ in what
\* its handlers do: a plan is extended by one operation, of those the handler
\* that asks for it can do, while the handlers invoked outnumber the plan.
RECURSIVE Outcomes(_, _, _)
Outcomes(c, t, plan) ==
  UNION {IF Len(plan) = MaxOps \/ m.calls <= Len(plan) THEN {m}
         ELSE UNION {Outcomes(c, t, Append(plan, op)) : op \in Ops(m.asked)} :
           m \in {Process(ctx) : ctx \in {NewContext(c, t, plan)}}}

HandleUpdate ==
  /\ ~busy
  /\ \E c \in Chats, t \in Texts :
     \E m \in Outcomes(c, t, <<>>) :
       /\ busy' = TRUE
       /\ store' = m.store
       /\ disk' = m.disk
       /\ mgr' = m.mgr
       /\ last' = [ chat |-> c, text |-> t, key |-> m.key, time |-> now,
                    before |-> m.before, after |-> m.sess, scene |-> m.scene,
                    routed |-> m.routed, handled |-> m.handled, log |-> m.log,
                    raised |-> m.raised, escaped |-> m.err ]
       /\ UNCHANGED <<storeKind, shared, catching, chain, keyGenerator, jumpTargets, raisingLeave, steps, now, trace, pollVars>>

\* handle_update has returned: the caller goes on to the next update.
Return ==
  /\ busy
  /\ busy' = FALSE
  /\ last' = NoUpdate
  /\ UNCHANGED <<store, disk, mgr, storeKind, shared, catching, chain, keyGenerator, jumpTargets, raisingLeave, steps, now, trace, pollVars>>

\* Time passes between updates.
Tick ==
  /\ ~busy
  /\ now < MaxTime
  /\ now' = now + 1
  /\ UNCHANGED <<store, disk, mgr, storeKind, shared, catching, chain, keyGenerator, jumpTargets, raisingLeave, steps, trace, busy, last, pollVars>>

Next == HandleUpdate \/ Return \/ Tick

Spec == Init /\ [][Next]_vars

\* The same bot over a store that keeps the mapping it is given and a store
\* that keeps copies, handed to session() alone, bot.use(session(store)), or
\* also made the bot's session_manager store. (Between restarts a
\* FileSessionStore keeps its mappings as a MemorySessionStore does.)
InitStores == InitWith({"memory", "copy"}, BOOLEAN, BOOLEAN, {NumSteps}) /\ chain = OuterChain /\ keyGenerator = "default" /\ jumpTargets = {} /\ raisingLeave = {}

SpecStores == InitStores /\ [][Next]_vars

\* The bot of Spec with session() given a key_generator or not, and a store
\* that is the bot's session_manager store or not.
InitKeyed ==
  /\ InitWith({"memory"}, BOOLEAN, {TRUE}, {NumSteps})
  /\ chain = OuterChain
  /\ keyGenerator \in {"default", "custom"}
  /\ jumpTargets = {} /\ raisingLeave = {}

SpecKeyed == InitKeyed /\ [][Next]_vars

\* Every kind of store, made the bot's session_manager store as well:
\* bot.use(session(store=bot.session_manager.store)).
InitShared == InitWith(StoreKinds, {TRUE}, BOOLEAN, {NumSteps}) /\ chain = OuterChain /\ keyGenerator = "default" /\ jumpTargets = {} /\ raisingLeave = {}

SpecShared == InitShared /\ [][Next]_vars

\* The bot of Spec on a FileSessionStore whose file already holds sessions: a
\* session kept from a run whose stage registered a scene X, which this stage
\* does not.
StaleSession ==
  [EmptySession EXCEPT !.scene = [id |-> "X", state |-> EmptyState, entered_at |-> 0]]

InitStale ==
  /\ \E s \in {EmptySession, StaleSession} :
       store = [key \in Keys |-> IF key \in Chats THEN s ELSE EmptySession]
  /\ disk = store
  /\ mgr = store
  /\ storeKind = "file"
  /\ shared = TRUE
  /\ catching \in BOOLEAN
  /\ chain = OuterChain
  /\ keyGenerator = "default" /\ jumpTargets = {} /\ raisingLeave = {}
  /\ steps = NumSteps
  /\ now = 0
  /\ trace = <<>>
  /\ busy = FALSE
  /\ last = NoUpdate
  /\ NotPolling

SpecStale == InitStale /\ [][Next]_vars

\* handle_update(update) for the text t sent by c.
Handled(c, t) ==
  \E m \in Outcomes(c, t, <<>>) :
     /\ busy' = TRUE
     /\ store' = m.store
     /\ disk' = m.disk
     /\ mgr' = m.mgr
     /\ last' = [ chat |-> c, text |-> t, key |-> m.key, time |-> now,
                  before |-> m.before, after |-> m.sess, scene |-> m.scene,
                  routed |-> m.routed, handled |-> m.handled, log |-> m.log,
                  raised |-> m.raised, escaped |-> m.err ]
     /\ UNCHANGED <<storeKind, shared, catching, chain, keyGenerator, jumpTargets, raisingLeave, steps, now, pollVars>>

\* A test run: the updates are handed to handle_update one after the other and
\* what each of them did is recorded, MaxUpdates of them at most.
RecordedUpdate ==
  /\ ~busy
  /\ Len(trace) < MaxUpdates
  /\ \E c \in Chats, t \in Texts :
       /\ Handled(c, t)
       /\ trace' = Append(trace, last')

NextRecorded == RecordedUpdate \/ Return \/ Tick

SpecRecorded == Init /\ [][NextRecorded]_vars

\* The session of a conversation that has entered the wizard W, whose step 0
\* has prompted and returned.
EnteredWizard ==
  [EmptySession EXCEPT
     !.scene = [id |-> "W",
                state |-> [wizard |-> [NoWizard EXCEPT !.present = TRUE]],
                entered_at |-> 0]]

\* A test run that starts in such a conversation.
InitEntered ==
  /\ store = [key \in Keys |-> IF key \in Chats THEN EnteredWizard ELSE EmptySession]
  /\ disk = [key \in Keys |-> EmptySession]
  /\ mgr = [key \in Keys |-> EmptySession]
  /\ storeKind = "memory"
  /\ shared = TRUE
  /\ catching = TRUE
  /\ chain = OuterChain
  /\ keyGenerator = "default" /\ jumpTargets = {} /\ raisingLeave = {}
  /\ steps = NumSteps
  /\ now = 0
  /\ trace = <<>>
  /\ busy = FALSE
  /\ last = NoUpdate
  /\ NotPolling

SpecEntered == InitEntered /\ [][NextRecorded]_vars

\* The bot of Spec with step handlers that also call jump_to with an index
\* before the first step, the last step's, and one past the last step.
InitJumps ==
  /\ InitWith({"memory"}, {TRUE}, {TRUE}, {NumSteps})
  /\ chain = OuterChain
  /\ keyGenerator = "default"
  /\ jumpTargets = {-1, NumSteps - 1, NumSteps}
  /\ raisingLeave = {}

SpecJumps == InitJumps /\ [][Next]_vars

\* The bot of Spec with scenes whose first, or second, leave handler raises.
InitRaising ==
  /\ InitWith({"memory"}, {TRUE}, BOOLEAN, {NumSteps})
  /\ chain = OuterChain
  /\ keyGenerator = "default"
  /\ jumpTargets = {}
  /\ raisingLeave \in {{1}, {2}}

SpecRaising == InitRaising /\ [][Next]_vars

\* The bot of Spec serving two conversations that enter the wizard and answer
\* it, their updates arriving in any order.
WizardTexts == {<<"/", "w">>, <<"h", "i">>}

InitTwo ==
  /\ InitWith({"memory"}, {TRUE}, {TRUE}, {NumSteps})
  /\ chain = OuterChain
  /\ keyGenerator = "default"
  /\ jumpTargets = {}
  /\ raisingLeave = {}

\* For each update the run records whose it was and the session it loaded
\* and ended with.
TwoUpdate ==
  /\ ~busy
  /\ Len(trace) < MaxTurns
  /\ \E c \in TwoChats, t \in WizardTexts :
       /\ Handled(c, t)
       /\ trace' = Append(trace, [chat |-> c, before |-> last'.before, after |-> last'.after])

NextTwo == TwoUpdate \/ Return

SpecTwo == InitTwo /\ [][NextTwo]_vars

\* The bot of Spec receiving texts that hold white space too.
SpacedUpdate ==
  /\ ~busy
  /\ \E c \in Chats, t \in Texts \cup SpacedTexts :
       /\ Handled(c, t)
       /\ UNCHANGED trace

NextSpaced == SpacedUpdate \/ Return \/ Tick

SpecSpaced == Init /\ [][NextSpaced]_vars

\* The bot of Spec with a hears handler registered before the last unit.
HearsChain ==
  SubSeq(OuterChain, 1, Len(OuterChain) - 1) \o <<"hears", OuterChain[Len(OuterChain)]>>

InitHears == InitWith({"memory"}, {TRUE}, BOOLEAN, {NumSteps}) /\ chain = HearsChain /\ keyGenerator = "default" /\ jumpTargets = {} /\ raisingLeave = {}

SpecHears == InitHears /\ [][Next]_vars

\* The bot of Spec with filter(predicate) called before the last unit is
\* registered.
FilterChain ==
  Filter(SubSeq(OuterChain, 1, Len(OuterChain) - 1)).units \o <<OuterChain[Len(OuterChain)]>>

InitFilter == InitWith({"memory"}, {TRUE}, BOOLEAN, {NumSteps}) /\ chain = FilterChain /\ keyGenerator = "default" /\ jumpTargets = {} /\ raisingLeave = {}

SpecFilter == InitFilter /\ [][Next]_vars

\* The bot of Spec with a wizard of any number of steps, none included.
InitSteps == InitWith({"memory"}, {TRUE}, BOOLEAN, 0..NumSteps) /\ chain = OuterChain /\ keyGenerator = "default" /\ jumpTargets = {} /\ raisingLeave = {}

SpecSteps == InitSteps /\ [][Next]_vars

\* --------------------------------------------------------------- properties
\* The update whose processing has just ended is described by last (busy).
Log == last.log
At(j) == last.log[j]
Events(ev) == {j \in DOMAIN last.log : last.log[j].ev = ev}
EventsOf(ev, who) == {j \in Events(ev) : last.log[j].who = who}

\* C1: for every update whose processing raises nothing, the handlers of the
\* outer chain registered after the stage middleware are invoked if and only
\* if no scene is active when the stage middleware runs (an active scene
\* processes the update alone).
C1_OuterIffNoScene ==
  busy /\ ~last.raised => (Events("outer") # {} <=> last.routed = "none")

\* The scene that is active, by the session, when event j is logged.
ActiveAt(j) == GetCurrentScene(At(j).sess, last.time)

\* Where the stage.enter call logged at j returns True (calls do not nest).
EnterReturn(j) ==
  {e \in Events("entered") :
     e > j /\ \A x \in (j + 1)..(e - 1) : At(x).ev \notin {"enter", "entered", "refused"}}

\* Between j and e each leave handler of a ran exactly once, before any enter
\* handler of b.
LeftOnceBeforeEnter(j, e, a, b) ==
  LET leaves == {x \in (j + 1)..(e - 1) : At(x).ev = "leaveH" /\ At(x).who = a}
      enters == {x \in (j + 1)..(e - 1) : At(x).ev = "enterH" /\ At(x).who = b}
  IN /\ \A i \in 1..NumLeave(a) : Cardinality({x \in leaves : At(x).i = i}) = 1
     /\ Cardinality(leaves) = NumLeave(a)
     /\ Cardinality(enters) = NumEnter(b)
     /\ \A x \in leaves, y \in enters : x < y

\* The scene entered at j runs its wizard to completion during the entry.
CompletedWithin(j, e) == \E x \in j..e : At(x).ev = "complete"

\* C2 as stated: whenever stage.enter(B) returns True while a scene A is active
\* (A = B included), A's leave handlers have run exactly once, before B's enter
\* handlers, and the session then records B as the active scene.
C2_LeaveOnceThenEnter ==
  busy =>
    \A j \in Events("enter") : \A e \in EnterReturn(j) :
      ActiveAt(j) # "none" =>
        /\ LeftOnceBeforeEnter(j, e, ActiveAt(j), At(j).who)
        /\ GetCurrentScene(At(e).sess, last.time) = At(j).who

\* C2 amended: the same, for an entry during which B is not completed by its
\* own step handlers (a wizard whose step 0 navigates past its last step leaves
\* B again before stage.enter returns).
C2_LeaveOnceThenEnterUnlessCompleted ==
  busy =>
    \A j \in Events("enter") : \A e \in EnterReturn(j) :
      ActiveAt(j) # "none" /\ ~CompletedWithin(j, e) =>
        /\ LeftOnceBeforeEnter(j, e, ActiveAt(j), At(j).who)
        /\ GetCurrentScene(At(e).sess, last.time) = At(j).who

\* C2 witness: one update in which A is left for B and then B for B.
C2_Witness ==
  /\ busy
  /\ \E j1, j2 \in Events("enter") :
       /\ EnterReturn(j1) # {} /\ EnterReturn(j2) # {}
       /\ ActiveAt(j1) = "A" /\ At(j1).who = "B"
       /\ ActiveAt(j2) = "B" /\ At(j2).who = "B"
       /\ \A e \in EnterReturn(j1) \cup EnterReturn(j2) : ~CompletedWithin(j1, e)

\* Events that enter or leave a scene.
SceneOps == {"enter", "leave", "reenter", "complete", "enterH", "leaveH"}

\* The successful stage.enter calls after which the update does nothing more
\* to the scene.
EnteredLast ==
  {e \in Events("entered") :
     \A x \in DOMAIN last.log : x > e => At(x).ev \notin SceneOps}

\* A fresh Context gets the session the store holds for its conversation, and
\* the stage middleware resolves the current scene from it at that time.
LoadsStore ==
  ~busy /\ busy' =>
    /\ last'.before = store[last'.key]
    /\ last'.routed = GetCurrentScene(store[last'.key], now)

\* C3 as stated: after stage.enter(id) has succeeded in an update, every later
\* update of the conversation, whenever it comes, finds get_current_scene
\* returning the scene id.
C3_EnteredSceneIsFound ==
  [][ /\ busy =>
           \A e \in EnteredLast : \A t \in last.time..MaxTime :
              GetCurrentScene(store[last.key], t) = At(e).who
      /\ LoadsStore ]_vars

\* C3 amended: it does when the scene is still the recorded one as
\* stage.enter returns (a wizard was not completed by its own step 0) and the
\* later update comes before the scene's TTL, if it has one, has elapsed.
C3_EnteredSceneIsFoundWithinTtl ==
  [][ /\ busy =>
           \A e \in EnteredLast : \A t \in last.time..MaxTime :
              /\ At(e).sess.scene.id = At(e).who
              /\ HasTtl(At(e).who) => t - last.time <= Ttl(At(e).who)
              => GetCurrentScene(store[last.key], t) = At(e).who
      /\ LoadsStore ]_vars

\* C3 witness: an update finds the TTL scene B, entered by an earlier update.
C3_Witness ==
  busy /\ last.routed = "B" /\ last.before.scene.id = "B" /\ Events("enter") = {}

\* A handler of the update wrote ctx.session["k"].
KWritten ==
  \/ last.after.k # last.before.k
  \/ \E j \in DOMAIN last.log : At(j).sess.k # last.before.k

\* C4: whatever store the session middleware was given, when a handler has
\* set ctx.session[k] = v in an update that finishes without an error, the
\* store holds v under k and the next update of the conversation loads it.
C4_SessionRoundTrip ==
  [][ /\ busy /\ KWritten /\ ~last.raised => store[last.key].k = last.after.k
      /\ LoadsStore ]_vars

C6_ErrorCaughtOnce ==
  busy =>
    /\ ~last.escaped
    /\ last.raised /\ catching =>
         /\ Cardinality(Events("catch")) = 1
         /\ \A c \in Events("catch") : At(c).sess = last.after /\ At(c).scene = last.scene
         /\ EventsOf("logged", "unhandled") = {}
    /\ last.raised /\ ~catching =>
         /\ Cardinality(EventsOf("logged", "unhandled")) = 1
         /\ Events("catch") = {}
    /\ ~last.raised => Events("catch") = {} /\ Events("logged") = {}

\* C6 witness: a wizard step raised, the error handler got the exception and
\* raised in turn.
C6_Witness ==
  /\ busy /\ last.raised /\ catching /\ ~last.escaped
  /\ Events("step") # {}
  /\ EventsOf("logged", "handler_error") # {}

\* {"current_step": 0, "step_data": {}, "completed_steps": []}
InitialWizard == [NoWizard EXCEPT !.present = TRUE]

\* The navigation calls of a step handler; the step event that follows one
\* directly is the step that call executes.
NavOps == {"next", "prev", "jump"}

\* The entries of the wizard W: the last of its enter handlers has run.
WizardEntries == {x \in EventsOf("enterH", "W") : At(x).i = NumEnter("W")}

\* The step executions after the entry x that no navigation call made.
StepsByEntry(x) ==
  {y \in Events("step") :
     /\ y > x
     /\ At(y - 1).ev \notin NavOps
     /\ \A z \in WizardEntries : ~(x < z /\ z < y)}

\* C7: entering the wizard sets its state to current_step 0, no step_data and
\* no completed_steps, and then, in the same update, executes the handler of
\* step 0; the entry executes no other step and executes step 0 once (further
\* executions are those the step handlers ask for by navigating).
C7_EnterRunsStepZero ==
  busy =>
    \A x \in WizardEntries :
      /\ x + 1 \in DOMAIN last.log
      /\ At(x + 1).ev = "step" /\ At(x + 1).who = "W" /\ At(x + 1).i = 0
      /\ At(x + 1).sess.scene.id = "W"
      /\ At(x + 1).sess.scene.state.wizard = InitialWizard
      /\ StepsByEntry(x) = {x + 1}

\* C7 witness: "/w" enters the wizard, step 0 runs and the wizard waits there.
C7_Witness ==
  /\ busy /\ WizardEntries # {} /\ EventsOf("step", "W") # {}
  /\ last.before.scene.id = "none"
  /\ last.after.scene.id = "W"
  /\ last.after.scene.state.wizard = InitialWizard

WizardOf(sess) == sess.scene.state.wizard

\* The update is a non-command message routed to the wizard W, whose state the
\* session holds.
WizardMessage ==
  /\ busy /\ last.routed = "W" /\ ~StartsWithSlash(last.text)
  /\ WizardOf(last.before).present

\* No step handler of the update navigated.
NoNavigation == \A j \in DOMAIN last.log : At(j).ev \notin NavOps \cup {"complete"}

\* C8: a non-command message for the wizard at step k, k + 1 < N, first sets
\* current_step to k + 1, changing nothing else of the wizard state, and then
\* runs the handler of step k + 1 before any other handler; when no step
\* handler navigates, that is the only step handler run and current_step stays
\* k + 1.
C8_MessageAdvancesThenRuns ==
  WizardMessage /\ WizardOf(last.before).current_step + 1 < steps =>
    LET k == WizardOf(last.before).current_step
    IN /\ last.log # <<>>
       /\ At(1).ev = "step" /\ At(1).who = "W" /\ At(1).i = k + 1
       /\ WizardOf(At(1).sess) = [WizardOf(last.before) EXCEPT !.current_step = k + 1]
       /\ NoNavigation =>
            /\ Events("step") = {1}
            /\ WizardOf(last.after).current_step = k + 1

\* C8 witness: a message moves the wizard from step 0 to step 1, whose handler
\* does not navigate.
C8_Witness ==
  /\ WizardMessage /\ NoNavigation
  /\ WizardOf(last.before).current_step = 0
  /\ Events("step") = {1} /\ At(1).i = 1
  /\ WizardOf(last.after).current_step = 1

\* C9 as stated: each non-command message for the wizard, its handlers not
\* navigating, advances current_step by one up to N - 1, and one further
\* message triggers complete_wizard, after which the scene is inactive.
C9_MessagesAdvanceThenComplete ==
  WizardMessage =>
    LET k == WizardOf(last.before).current_step
    IN /\ k + 1 < steps /\ NoNavigation =>
            WizardOf(last.after).current_step = k + 1
       /\ k + 1 >= steps =>
            /\ Events("complete") # {}
            /\ GetCurrentScene(store[last.key], last.time) = "none"

\* C9 amended: the further message, at current_step = N - 1, runs no step
\* handler and does not complete the wizard: the wizard state is unchanged and
\* the scene stays active.
C9_MessagesAdvanceThenStay ==
  WizardMessage =>
    LET k == WizardOf(last.before).current_step
    IN /\ k + 1 < steps /\ NoNavigation =>
            WizardOf(last.after).current_step = k + 1
       /\ k + 1 >= steps =>
            /\ Events("step") = {} /\ Events("complete") = {}
            /\ WizardOf(last.after) = WizardOf(last.before)
            /\ GetCurrentScene(store[last.key], last.time) = "W"

\* C9 witness: messages alone have brought the wizard to its last step, and a
\* further message arrives.
C9_Witness ==
  /\ WizardMessage
  /\ WizardOf(last.before).current_step = steps - 1
  /\ WizardOf(last.before).completed_steps = <<>>
  /\ last.text = <<"h", "i">>
  /\ last.after.scene.id = "W"

\* What wizard.next(data), called at event j, has done when the next event is
\* logged: the state before, the state after, the step it was called at.
NextCalls == {j \in Events("next") : WizardOf(At(j).sess).present}
Occurrences(seq, x) == Cardinality({i \in DOMAIN seq : seq[i] = x})

\* C10 as stated: wizard.next(data) at current_step = k records data under
\* step_data[k] (get_step_data(k) then reads data), has k in completed_steps once, sets current_step to k + 1,
\* and then executes step k + 1 if k + 1 < N and calls complete_wizard
\* otherwise.
C10_NextRecordsData ==
  busy =>
    \A j \in NextCalls :
      LET pre == WizardOf(At(j).sess)
          k == pre.current_step
      IN /\ j + 1 \in DOMAIN last.log
         /\ At(j).arg # "None" => GetStepData(WizardOf(At(j + 1).sess), k) = At(j).arg
         /\ Occurrences(WizardOf(At(j + 1).sess).completed_steps, k) = 1
         /\ WizardOf(At(j + 1).sess).current_step = k + 1
         /\ k + 1 < steps => At(j + 1).ev = "step" /\ At(j + 1).i = k + 1
         /\ k + 1 >= steps => At(j + 1).ev = "complete"

\* C10, what next_step does: data is recorded when it is not empty; with None
\* or an empty dict step_data[k] stays what it was, a value recorded on an
\* earlier visit of step k included. Nothing else of step_data changes.
C10_NextRecordsNonEmptyData ==
  busy =>
    \A j \in NextCalls :
      LET pre == WizardOf(At(j).sess)
          k == pre.current_step
      IN /\ j + 1 \in DOMAIN last.log
         /\ WizardOf(At(j + 1).sess).step_data =
              [pre.step_data EXCEPT ![k] = IF At(j).arg = "{v}" THEN "{v}" ELSE @]
         /\ Occurrences(WizardOf(At(j + 1).sess).completed_steps, k) = 1
         /\ Occurrences(pre.completed_steps, k) <= 1
         /\ WizardOf(At(j + 1).sess).current_step = k + 1
         /\ k + 1 < steps => At(j + 1).ev = "step" /\ At(j + 1).i = k + 1
         /\ k + 1 >= steps => At(j + 1).ev = "complete"

\* ctx.session when the handler logged at k and all it called have returned:
\* what the next event sees, or the final session.
SessAfter(k) == IF k < Len(last.log) THEN At(k + 1).sess ELSE last.after

\* The complete_wizard calls after which the update does nothing more to the
\* scene.
CompletedLast ==
  {j \in Events("complete") :
     \A x \in DOMAIN last.log :
        x > j => At(x).ev \notin (SceneOps \ {"leaveH"}) /\ (At(x).ev = "leaveH" => x <= j + NumLeave(At(j).who))}

\* C11: complete_wizard first marks completed = true in the wizard state, then
\* runs the scene's leave handlers in registration order, each once, and
\* removes session["__scene"]; when the update does nothing more to the scene,
\* no later update, whenever it comes, finds the wizard active.
C11_CompleteMarksThenLeaves ==
  [][ /\ busy =>
           \A j \in Events("complete") :
              LET w == At(j).who
                  n == NumLeave(w)
              IN /\ j + n <= Len(last.log)
                 /\ \A i \in 1..n :
                      /\ At(j + i).ev = "leaveH" /\ At(j + i).who = w /\ At(j + i).i = i
                      /\ At(j + i).sess.scene.id = w
                      /\ WizardOf(At(j + i).sess).completed
                      /\ WizardOf(At(j + i).sess) =
                           [WizardOf(At(j).sess) EXCEPT !.present = TRUE, !.completed = TRUE]
                 /\ SessAfter(j + n).scene = NoSceneRec
                 /\ SessAfter(j + n).k = At(j).sess.k
                 /\ j \in CompletedLast =>
                      \A t \in last.time..MaxTime :
                         GetCurrentScene(store[last.key], t) = "none"
      /\ LoadsStore ]_vars

\* C11 witness: a step handler called ctx.wizard.complete() on a wizard that
\* was not completed, and the update ends with no scene recorded.
C11_Witness ==
  /\ busy
  /\ \E j \in CompletedLast :
       /\ At(j - 1).ev = "step"
       /\ ~WizardOf(At(j).sess).completed
       /\ WizardOf(At(j).sess).current_step = 1
  /\ last.after.scene.id = "none"
  /\ store[last.key].scene.id = "none"

\* The session holds the record of the wizard W as its active scene and the
\* wizard's current_step (0 when the state has none) is a registered step.
StepInRange(sess) ==
  GetCurrentScene(sess, now) = "W" =>
     0 <= WizardOf(sess).current_step /\ WizardOf(sess).current_step < steps

\* A completion: the call of complete_wizard and the leave handlers it runs.
\* The wizard is then about to be removed from the session.
Completion ==
  {x \in DOMAIN last.log :
     \/ At(x).ev = "complete"
     \/ /\ At(x).ev = "leaveH" /\ At(x).who = "W"
        /\ \E j \in Events("complete") : j < x /\ x <= j + NumLeave("W")}

\* C12: in every reachable state in which the wizard is the active scene of a
\* conversation, 0 <= current_step < len(steps), whatever the number of
\* registered steps: in the stored sessions between updates, in the session
\* every handler is invoked with, and in the session an update ends with.
C12_StepInRange ==
  /\ \A key \in Keys : StepInRange(store[key])
  /\ busy => /\ StepInRange(last.after)
             /\ \A j \in DOMAIN last.log : StepInRange(At(j).sess)

\* C12 for a wizard with at least one step, outside a completion:
\* 0 <= current_step < len(steps) while the wizard is active, and inside a
\* completion current_step is at most len(steps).
C12_StepInRangeWithSteps ==
  steps >= 1 =>
     /\ \A key \in Keys : StepInRange(store[key])
     /\ busy => /\ StepInRange(last.after)
                /\ \A j \in DOMAIN last.log \ Completion : StepInRange(At(j).sess)
                /\ \A j \in Completion : WizardOf(At(j).sess).current_step \in 0..steps

\* C13: stage.leave(ctx) returns true exactly when a scene is active for the
\* conversation; that scene's leave handlers have then run, each once and in
\* registration order, and the session has lost its "__scene" record and
\* nothing else. When no scene is active the call returns false, raises
\* nothing (the chain goes on to the next handler) and changes nothing, as for
\* a leave that follows another leave.
C13_LeaveIffActive ==
  busy =>
    \A j \in Events("leave") :
       LET cur == GetCurrentScene(At(j).sess, last.time)
           n == IF cur = "none" THEN 0 ELSE NumLeave(cur)
       IN /\ At(j).who = cur
          /\ At(j).scene = cur
          /\ j + n + 1 <= Len(last.log)
          /\ \A i \in 1..n :
               /\ At(j + i).ev = "leaveH" /\ At(j + i).who = cur /\ At(j + i).i = i
               /\ At(j + i).sess = At(j).sess
          /\ At(j + n + 1).ev = "outer" /\ At(j + n + 1).who = "track"
          /\ At(j + n + 1).scene = "none"
          /\ cur # "none" => At(j + n + 1).sess = [At(j).sess EXCEPT !.scene = NoSceneRec]
          /\ cur = "none" => At(j + n + 1).sess = At(j).sess

C13_Witness ==
  /\ busy
  /\ \E j \in Events("leave") :
       /\ At(j).who = "A"
       /\ At(j + NumLeave("A")).ev = "leaveH"
       /\ At(j).sess.scene.id = "A"
       /\ At(j).sess.k = 1
  /\ last.after.scene = NoSceneRec
  /\ store[last.key].scene = NoSceneRec
  /\ store[last.key].k = 1

\* C14: stage.enter with an unregistered scene id returns false without
\* raising (the chain goes on to the next handler) and leaves the session and
\* the active scene as they were: no leave handler and no enter handler runs.
\* Only an unregistered id is refused.
C14_EnterUnregisteredRefused ==
  busy =>
    /\ \A j \in Events("enter") :
         At(j).who \notin Registered =>
            /\ j + 2 <= Len(last.log)
            /\ At(j + 1).ev = "refused" /\ At(j + 1).who = At(j).who
            /\ At(j + 2).ev = "outer" /\ At(j + 2).who = "track"
            /\ \A i \in 1..2 : At(j + i).sess = At(j).sess /\ At(j + i).scene = At(j).scene
    /\ \A j \in Events("refused") :
         j > 1 /\ At(j - 1).ev = "enter" /\ At(j - 1).who = At(j).who /\ At(j).who \notin Registered

C14_Witness ==
  /\ busy
  /\ \E j \in Events("refused") :
       /\ At(j).who = "X"
       /\ At(j).scene = "A" /\ At(j).sess.scene.id = "A"
       /\ At(j).sess # last.before
  /\ last.after.scene.id = "A"
  /\ store[last.key].scene.id = "A"

\* The calls of the stage are bracketed by these events; the others are
\* handler invocations and what handlers call.
CallBrackets == {"enter", "entered", "refused", "leave", "reenter"}

HandlerTrace(m) == [m EXCEPT !.log = SelectSeq(@, LAMBDA e : e.ev \notin CallBrackets)]

\* What the step handlers invoked during a call can be made to do.
StepPlans ==
  UNION {[1..n -> OpsOf("step")] : n \in 0..MaxOps}

\* The context of a handler of the conversation c that runs after the stage
\* middleware, on the stored session.
ContextAfterStage(c, plan) ==
  [NewContext(c, <<"/", "r">>, plan) EXCEPT
     !.sess = store[SessionKey(c)], !.before = store[SessionKey(c)],
     !.scene = GetCurrentScene(store[SessionKey(c)], now),
     !.routed = GetCurrentScene(store[SessionKey(c)], now),
     !.aliased = storeKind # "copy"]

\* C15: with scene S active, stage.reenter(ctx) has the effect of
\* stage.leave(ctx) followed by stage.enter(S, ctx): called on the session of
\* any conversation between two updates, the same handlers run in the same
\* order on the same sessions and the results are equal, whatever the handlers
\* do. In every update that calls reenter with S active, S's leave
\* handlers run, then S's enter handlers on the record {id S, empty state,
\* entered_at now}, then for a wizard the handler of step 0 on a fresh wizard
\* state.
C15_ReenterIsLeaveThenEnter ==
  /\ ~busy =>
       \A c \in Chats : \A plan \in StepPlans :
          \A m \in {ContextAfterStage(c, plan)} :
             m.scene # "none" =>
                \A r \in {StageReenter(m)}, l \in {StageLeave(m)} :
                   HandlerTrace(r) = HandlerTrace(StageEnter(l, m.scene))
  /\ busy =>
       \A j \in Events("reenter") :
          LET S == At(j).who
              n == NumLeave(S)
              e == NumEnter(S)
          IN S # "none" =>
               /\ j + n + e <= Len(last.log)
               /\ \A i \in 1..n :
                    /\ At(j + i).ev = "leaveH" /\ At(j + i).who = S /\ At(j + i).i = i
                    /\ At(j + i).sess = At(j).sess
               /\ \A i \in 1..e :
                    /\ At(j + n + i).ev = "enterH" /\ At(j + n + i).who = S /\ At(j + n + i).i = i
                    /\ At(j + n + i).sess =
                         [At(j).sess EXCEPT !.scene = [id |-> S, state |-> EmptyState,
                                                       entered_at |-> last.time]]
               /\ IsWizard(S) /\ steps > 0 =>
                    /\ j + n + e + 1 <= Len(last.log)
                    /\ At(j + n + e + 1).ev = "step" /\ At(j + n + e + 1).i = 0
                    /\ WizardOf(At(j + n + e + 1).sess) = InitialWizard
                    /\ At(j + n + e + 1).sess.scene.entered_at = last.time

C15_Witness ==
  /\ busy
  /\ \E j \in Events("reenter") :
       /\ At(j).who = "W"
       /\ WizardOf(At(j).sess).current_step = 2
       /\ WizardOf(At(j).sess).completed_steps # <<>>
       /\ At(j).sess.scene.entered_at < last.time
       /\ At(j + NumLeave("W") + NumEnter("W") + 1).ev = "step"
  /\ last.after.scene.id = "W"
  /\ WizardOf(last.after).current_step = 0
  /\ last.after.scene.entered_at = last.time

\* The record names a scene of the stage whose TTL, if it has one, has not
\* elapsed at time t.
NamesCurrentScene(sess, t) ==
  /\ sess.scene.id \in {"A", "B", "W"}
  /\ sess.scene.id = "B" => t - sess.scene.entered_at <= TtlB

\* C16: get_current_scene returns a scene only if the session's "__scene"
\* record names a scene registered in the stage that is not TTL-expired (it is
\* then that scene) and none otherwise. The stage middleware, which calls it,
\* hands the session on as it was loaded: an expired or unregistered record is
\* neither deleted nor rewritten, and the record of a current scene still has
\* its id and entered_at when the scene's first handler runs.
C16_CurrentSceneReadsOnly ==
  /\ \A key \in Keys : \A t \in 0..MaxTime :
        GetCurrentScene(store[key], t) =
           IF NamesCurrentScene(store[key], t) THEN store[key].scene.id ELSE "none"
  /\ busy =>
       /\ last.routed =
            IF NamesCurrentScene(last.before, last.time) THEN last.before.scene.id ELSE "none"
       /\ last.routed # "W" => SessAfter(0) = last.before
       /\ SessAfter(0).scene.id = last.before.scene.id
       /\ SessAfter(0).scene.entered_at = last.before.scene.entered_at
       /\ SessAfter(0).k = last.before.k

C16_Witness ==
  /\ busy
  /\ last.before = StaleSession
  /\ last.routed = "none"
  /\ Len(last.log) = 1 /\ At(1).ev = "outer" /\ At(1).sess = StaleSession
  /\ last.after.scene = StaleSession.scene
  /\ store[last.key].scene = StaleSession.scene

\* Seconds between the entry recorded in the session and the update.
Elapsed == last.time - last.before.scene.entered_at

\* C17: the scene B, which has a TTL, is active exactly while the time elapsed
\* since entered_at is at most the TTL (elapsed = TTL included). An update
\* that arrives later is not routed to the scene and reaches the outer chain
\* (its handlers run on the session as loaded, record included; the last of
\* them runs unless an earlier one raised), and unless one of them enters a
\* scene the record stays in the session and the store.
C17_ActiveWithinTtl ==
  busy /\ last.before.scene.id = "B" =>
     /\ last.routed = "B" <=> Elapsed <= TtlB
     /\ last.routed = "none" <=> Elapsed > TtlB
     /\ Elapsed > TtlB =>
          /\ ~last.handled
          /\ ~last.raised =>
               \E j \in EventsOf("outer", "track") : At(j).i = 0
          /\ \A j \in Events("outer") :
               (\A x \in 1..j : At(x).ev \notin SceneOps) => At(j).sess = last.before
          /\ Events("enter") = {} =>
               /\ last.after.scene = last.before.scene
               /\ store[last.key].scene = last.before.scene

C17_Witness ==
  /\ busy
  /\ last.before.scene.id = "B"
  /\ Elapsed > TtlB
  /\ last.routed = "none"
  /\ last.text = <<"h", "i">>
  /\ Len(last.log) = 1 /\ At(1).who = "track" /\ At(1).sess = last.before
  /\ last.after.k # last.before.k
  /\ store[last.key].scene = last.before.scene

\* What the handlers of the scene A did in the recorded update u, in order: its
\* enter handler, its text handler and its leave handlers each send one reply.
RECURSIVE RepliesOfA(_)
RepliesOfA(log) ==
  IF log = <<>> THEN <<>>
  ELSE IF Head(log).who = "A" /\ Head(log).ev \in {"enterH", "scene", "leaveH"}
       THEN <<[ev |-> Head(log).ev, i |-> Head(log).i]>> \o RepliesOfA(Tail(log))
  ELSE RepliesOfA(Tail(log))

\* The recorded run is the entry command of A followed by a text message.
GreetingRun ==
  /\ Len(trace) = 2
  /\ trace[1].text = <<"/", "a">>
  /\ trace[2].text = <<"h", "i">>

\* The text handler of A leaves the scene: its invocation is followed by the
\* first leave handler.
TextHandlerLeaves(log) ==
  \E j \in 1..(Len(log) - 1) :
     /\ log[j].ev = "scene" /\ log[j].who = "A"
     /\ log[j + 1].ev = "leaveH"

\* C18: the entry command of the scene A followed by a text update in the same
\* conversation. The first update runs the scene's enter handler once and
\* nothing else of the scene, and leaves A recorded in the store; the second
\* is routed to A and runs its text handler first; when that handler leaves
\* the scene, the handlers that ran over both updates are the enter handler,
\* the text handler and the leave handlers, in that order and each once, and
\* the session stored after the second update has no "__scene" record.
C18_GreetingScenario ==
  GreetingRun =>
     /\ RepliesOfA(trace[1].log) = <<[ev |-> "enterH", i |-> 1]>>
     /\ trace[1].after.scene.id = "A"
     /\ trace[2].before.scene = trace[1].after.scene
     /\ trace[2].routed = "A"
     /\ trace[2].log # <<>> /\ trace[2].log[1].ev = "scene" /\ trace[2].log[1].who = "A"
     /\ TextHandlerLeaves(trace[2].log) =>
          /\ RepliesOfA(trace[1].log) \o RepliesOfA(trace[2].log) =
               <<[ev |-> "enterH", i |-> 1], [ev |-> "scene", i |-> 0]>>
                 \o [i \in 1..NumLeave("A") |-> [ev |-> "leaveH", i |-> i]]
          /\ trace[2].after.scene = NoSceneRec
          /\ store[trace[2].key].scene = NoSceneRec

C18_Witness ==
  /\ GreetingRun
  /\ busy /\ last = trace[2]
  /\ TextHandlerLeaves(trace[2].log)
  /\ ~trace[1].raised /\ ~trace[2].raised
  /\ trace[2].time > trace[1].time
  /\ store[trace[2].key].scene = NoSceneRec

\* The handlers registered with command(names): unit -> names.
CommandUnits == {"cmd_a", "cmd_b", "cmd_w", "cmd_x", "cmd_l", "cmd_r"}

\* The text starts with "/" and its first whitespace-delimited token after
\* the slash is one of names, ignoring case.
NamesCommand(t, names) ==
  /\ StartsWithSlash(t)
  /\ Split(Tail(t)) # <<>>
  /\ LowerAll(Split(Tail(t))[1]) \in {LowerAll(n) : n \in names}

\* The whitespace-separated tokens that follow the command name.
TokensAfterCommand(t) == Tail(Split(Tail(t)))

\* C19: a handler registered with command(names) is invoked for a message
\* exactly when the text starts with "/" and its first whitespace-delimited
\* token after the slash is one of names ignoring case (an update in which a
\* handler raised may end before the handler's turn); in the handler
\* get_command() is that name in lower case and get_command_args() is the list
\* of the tokens that follow it.
C19_CommandInvokedWithArgs ==
  busy =>
    \A u \in CommandUnits :
       /\ EventsOf("outer", u) # {} => NamesCommand(last.text, CommandNames(u))
       /\ NamesCommand(last.text, CommandNames(u)) /\ ~last.raised =>
            Cardinality(EventsOf("outer", u)) = 1
       /\ EventsOf("outer", u) # {} =>
            /\ GetCommand(last.text) \in {LowerAll(n) : n \in CommandNames(u)}
            /\ GetCommand(last.text) = LowerAll(Split(Tail(last.text))[1])
            /\ GetCommandArgs(last.text) = TokensAfterCommand(last.text)

\* C19 with get_command_args() as the code computes it: the tokens of the
\* whole text but the first, which are the tokens after the command name when
\* the name follows the slash directly.
C19_CommandInvokedWithSplitArgs ==
  busy =>
    \A u \in CommandUnits :
       /\ EventsOf("outer", u) # {} => NamesCommand(last.text, CommandNames(u))
       /\ NamesCommand(last.text, CommandNames(u)) /\ ~last.raised =>
            Cardinality(EventsOf("outer", u)) = 1
       /\ EventsOf("outer", u) # {} =>
            /\ GetCommand(last.text) \in {LowerAll(n) : n \in CommandNames(u)}
            /\ GetCommand(last.text) = LowerAll(Split(Tail(last.text))[1])
            /\ GetCommandArgs(last.text) = Tail(Split(last.text))
            /\ last.text[2] # " " => GetCommandArgs(last.text) = TokensAfterCommand(last.text)

\* What the handlers of an update can be made to do.
ChainOps == {"none", "raise", "set", "leave", "next"}
ChainPlans == UNION {[1..n -> ChainOps] : n \in 0..MaxOps}

Units(names) == [i \in 1..Len(names) |-> Unit(names[i])]

\* The units of the outer chain registered through successive use calls, and
\* composed with nested compositions.
UsedChain == Use(Unit(Head(OuterChain)), Units(Tail(OuterChain)))

RightNestedChain ==
  ComposeOf(<<Unit(OuterChain[1]), Unit(OuterChain[2]),
              ComposeOf(Units(SubSeq(OuterChain, 3, Len(OuterChain))))>>)

MixedChain ==
  ComposeOf(<<ComposeOf(Units(SubSeq(OuterChain, 1, 2))),
              ComposeOf(<<Unit(OuterChain[3]),
                          ComposeOf(Units(SubSeq(OuterChain, 4, 6)))>>),
              ComposeOf(Units(SubSeq(OuterChain, 7, Len(OuterChain))))>>)

IsPrefix(a, b) == Len(a) <= Len(b) /\ a = SubSeq(b, 1, Len(a))

\* C20 as stated: the composed handler calls every registered unit once, in
\* registration order, in every update.
C20_EveryUnitOnce ==
  ~busy =>
     \A c \in Chats, t \in Texts, plan \in ChainPlans :
        \A r \in {Compose(NewContext(c, t, plan), OuterChain)} :
           r.ran = OuterChain

\* C20: the composed handler calls the registered units in registration
\* order, each once, whether or not the handler of an earlier gated unit ran,
\* up to the first unit that raises (all of them when none raises); the same
\* units composed with nesting, or registered through successive use calls,
\* give the same calls in the same order with the same effects.
C20_UnitsOnceInOrder ==
  /\ ~busy =>
       \A c \in Chats, t \in Texts, plan \in ChainPlans :
          \A m \in {NewContext(c, t, plan)} :
             \A r \in {Compose(m, OuterChain)} :
                /\ IsPrefix(r.ran, OuterChain)
                /\ ~r.err => r.ran = OuterChain
                /\ CallHandler(m, UsedChain) = r
                /\ CallHandler(m, RightNestedChain) = r
                /\ CallHandler(m, MixedChain) = r
  /\ busy /\ ~last.raised =>
       /\ Cardinality(EventsOf("outer", "track")) = 1
       /\ \A j \in Events("scene") : \E x \in Events("outer") : j < x
       /\ \A j \in DOMAIN last.log : At(j).ev = "outer" /\ At(j).who # "track" =>
             \E x \in EventsOf("outer", "track") : j < x

C20_Witness ==
  /\ busy /\ ~last.raised
  /\ last.routed = "A"
  /\ \E j \in EventsOf("scene", "A"), x \in EventsOf("outer", "cmd_b"),
        y \in EventsOf("outer", "track") : j < x /\ x < y

\* The handlers registered with on("text"): the text handler of the scene A
\* and the handler "track" of the outer chain.
TextHandlerEvents == EventsOf("scene", "A") \cup EventsOf("outer", "track")

\* C21: a handler registered with on("text") is invoked only for an update
\* whose message carries non-empty text (not for a message without text, such
\* as a location message), and a mounted handler is invoked at most once per
\* update.
C21_TextHandlerNeedsText ==
  busy =>
    /\ TextHandlerEvents # {} => last.text # <<>>
    /\ Cardinality(EventsOf("scene", "A")) <= 1
    /\ Cardinality(EventsOf("outer", "track")) <= 1

\* C21 as the code has it: a handler registered with on("text") is invoked, at
\* most once, for every update that carries a message, with or without text.
C21_TextHandlerForEveryMessage ==
  busy =>
    /\ Cardinality(EventsOf("scene", "A")) <= 1
    /\ Cardinality(EventsOf("outer", "track")) <= 1
    /\ ~last.raised => Cardinality(EventsOf("outer", "track")) = 1
    /\ last.routed = "A" => Cardinality(EventsOf("scene", "A")) = 1

\* The patterns of HearsTriggers that the text holds, ignoring case.
Matching(t) ==
  {k \in DOMAIN HearsTriggers :
     \E at \in 1..Len(t) :
        /\ at + Len(HearsTriggers[k]) - 1 <= Len(t)
        /\ LowerAll(SubSeq(t, at, at + Len(HearsTriggers[k]) - 1)) = LowerAll(HearsTriggers[k])}

\* C22: the handler registered with hears(triggers) is invoked at most once
\* per update, for the first pattern in registration order that matches the
\* text, even when several match, with ctx.match the match of that pattern;
\* it is not invoked when no pattern matches or the message has no text, and
\* it is invoked when one matches and the chain reaches it.
C22_HearsFirstMatchOnce ==
  busy =>
    /\ Cardinality(EventsOf("outer", "hears")) <= 1
    /\ \A j \in EventsOf("outer", "hears") :
         /\ last.text # <<>>
         /\ Matching(last.text) # {}
         /\ At(j).i \in Matching(last.text)
         /\ \A k \in Matching(last.text) : At(j).i <= k
         /\ At(j).match.pattern = At(j).i
         /\ LowerAll(At(j).match.group) = LowerAll(HearsTriggers[At(j).i])
         /\ At(j).match.group =
              SubSeq(last.text, At(j).match.start,
                     At(j).match.start + Len(At(j).match.group) - 1)
    /\ Matching(last.text) = {} => EventsOf("outer", "hears") = {}
    /\ Matching(last.text) # {} /\ ~last.raised => EventsOf("outer", "hears") # {}

C22_Witness ==
  /\ busy
  /\ last.text = <<"h", "i">>
  /\ Cardinality(Matching(last.text)) = 2
  /\ \E j \in EventsOf("outer", "hears") :
       /\ At(j).i = 1
       /\ At(j).match = [pattern |-> 1, start |-> 2, group |-> <<"i">>]
       /\ \E x \in EventsOf("outer", "track") : x > j

\* The units registered after the filter were called in the update.
RestOfChainRan == EventsOf("outer", "track") # {}

\* C23: filter(predicate) and drop(predicate) register and return the
\* composer; filter lets the units registered after it run only for an update
\* on which the predicate is true (here: the message is no command).
C23_FilterGatesChain ==
  /\ ~Filter(<<>>).raised
  /\ ~Drop(<<>>).raised
  /\ "filter" \in {chain[i] : i \in DOMAIN chain}
  /\ busy /\ RestOfChainRan => ~StartsWithSlash(last.text)

\* C23 as the code has it: filter registers a unit that lets the rest of the
\* chain run on every update, whatever the predicate says, and drop raises
\* instead of registering.
C23_FilterGatesNothing ==
  /\ ~Filter(<<>>).raised /\ Filter(<<>>).units = <<"filter">>
  /\ Drop(<<>>).raised /\ Drop(<<>>).units = <<>>
  /\ "filter" \in {chain[i] : i \in DOMAIN chain}
  /\ busy /\ ~last.raised => RestOfChainRan

\* The store bot.session_manager writes to: the store of session() when it
\* was handed over, its own otherwise.
ManagerStore == IF shared THEN store ELSE mgr

\* C24: the session of an update is written back under the key it was loaded
\* from (the conversation id, or the injected key generator's value) in the
\* store it was loaded from, and processing the update changes no other key of
\* any store.
C24_WriteBackSameKeySameStore ==
  [][ ~busy /\ busy' =>
        /\ last'.key = KeyGenerator(last'.chat)
        /\ last'.before = store[last'.key]
        /\ store'[last'.key] = last'.after
        /\ \A k \in Keys \ {last'.key} : store'[k] = store[k]
        /\ ~shared => mgr' = mgr ]_vars

\* C24 as the code has it: the session is loaded from, and written back to,
\* the middleware's store under the middleware's key, and handle_update
\* writes it once more, under the conversation id, to the session manager's
\* store; nothing else is written.
C24_AlsoWrittenUnderChatId ==
  [][ ~busy /\ busy' =>
        /\ last'.key = KeyGenerator(last'.chat)
        /\ last'.before = store[last'.key]
        /\ store'[last'.key] = last'.after
        /\ ManagerStore'[last'.chat] = last'.after
        /\ \A k \in Keys \ {last'.key, last'.chat} : store'[k] = store[k] /\ mgr'[k] = mgr[k]
        /\ shared => mgr' = mgr
        /\ ~shared => \A k \in Keys \ {last'.key} : store'[k] = store[k] ]_vars

\* C25: a non-command message for the wizard on its last step (current_step =
\* N - 1) invokes no step handler, leaves the scene record, current_step
\* included, as it was, and neither completes nor leaves the wizard; complete_wizard runs
\* only when a step handler calls next() or complete().
C25_LastStepMessageIgnored ==
  /\ WizardMessage /\ WizardOf(last.before).current_step = steps - 1 =>
       /\ Events("step") = {} /\ Events("complete") = {} /\ Events("leave") = {}
       /\ last.after.scene = last.before.scene
       /\ store[last.key].scene = last.before.scene
       /\ GetCurrentScene(store[last.key], last.time) = "W"
  /\ busy =>
       \A j \in Events("complete") :
         /\ j > 1
         /\ At(j - 1).who = "W"
         /\ At(j - 1).ev \in {"next", "step"}
         /\ At(j - 1).ev = "next" => WizardOf(At(j - 1).sess).current_step = steps - 1

\* C25 witness: the wizard has been brought to its last step by next() calls,
\* and a text message arrives there.
C25_Witness ==
  /\ WizardMessage
  /\ WizardOf(last.before).current_step = steps - 1
  /\ Len(WizardOf(last.before).completed_steps) = steps - 1
  /\ last.text = <<"h", "i">>
  /\ ~last.raised
  /\ WizardOf(store[last.key]).current_step = steps - 1

\* Violated under Spec: the bot of Spec gets to store the session
\* EnteredWizard ("/w" from a new conversation, step 0 returning).
EnteredWizardNeverStored == \A c \in Chats : store[c] # EnteredWizard

\* The step events of a log.
StepsOf(log) == SelectSeq(log, LAMBDA e : e.ev = "step")

\* A recorded run of two non-command messages for the wizard, the first of
\* which invokes one step handler, which returns without navigating.
RejectedRun ==
  /\ Len(trace) = 2
  /\ \A n \in 1..2 :
       /\ trace[n].routed = "W" /\ ~StartsWithSlash(trace[n].text)
       /\ WizardOf(trace[n].before).present
  /\ ~trace[1].raised
  /\ Len(StepsOf(trace[1].log)) = 1
  /\ \A j \in DOMAIN trace[1].log : trace[1].log[j].ev \notin NavOps \cup {"complete"}

\* C26: when the step handler invoked for a message returns without calling
\* next, current_step stays at that handler's step, and the next message runs
\* the handler of that same step again.
C26_RejectedStepRepeats ==
  RejectedRun =>
    LET j == StepsOf(trace[1].log)[1].i
    IN /\ WizardOf(trace[1].after).current_step = j
       /\ StepsOf(trace[2].log) # <<>>
       /\ StepsOf(trace[2].log)[1].i = j

\* C26 as the code has it: the next message advances current_step once more
\* and runs the handler of the step after the one that rejected, or no step
\* handler at all when the rejecting step was the last.
C26_RejectedStepIsPassed ==
  RejectedRun =>
    LET j == StepsOf(trace[1].log)[1].i
    IN /\ WizardOf(trace[1].after).current_step = j
       /\ WizardOf(trace[2].before).current_step = j
       /\ j + 1 < steps =>
            /\ StepsOf(trace[2].log) # <<>>
            /\ StepsOf(trace[2].log)[1].i = j + 1
            /\ WizardOf(StepsOf(trace[2].log)[1].sess).current_step = j + 1
       /\ j + 1 >= steps => StepsOf(trace[2].log) = <<>>

\* A non-command message for the wizard at step k whose auto-advanced handler,
\* that of step k + 1, calls wizard.next(); no handler navigates otherwise.
NextAfterAutoAdvance ==
  /\ WizardMessage
  /\ WizardOf(last.before).current_step + 1 < steps
  /\ Len(last.log) >= 3
  /\ At(1).ev = "step" /\ At(2).ev = "next"
  /\ {j \in DOMAIN last.log : At(j).ev \in NavOps} = {2}

\* C27 as stated: such a message advances current_step by two and runs two
\* step handlers, and the data given to next() is recorded under step k + 1,
\* not under the step k whose prompt the message answers.
C27_TwoHandlersPerMessage ==
  NextAfterAutoAdvance =>
    LET k == WizardOf(last.before).current_step
    IN /\ WizardOf(At(3).sess).current_step = k + 2
       /\ Cardinality(Events("step")) = 2
       /\ At(2).arg = "{v}" =>
            /\ WizardOf(At(3).sess).step_data[k + 1] = "{v}"
            /\ WizardOf(At(3).sess).step_data[k] = WizardOf(last.before).step_data[k]

\* C27 amended: the message advances current_step by two, k + 1 by the
\* auto-advance and k + 2 by next(), and the data is recorded under step
\* k + 1, step_data[k] staying what it was. When k + 2 < N two step handlers
\* run, those of steps k + 1 and k + 2; when k + 2 = N only that of step k + 1
\* runs and next() completes the wizard.
C27_DoubleAdvance ==
  NextAfterAutoAdvance =>
    LET k == WizardOf(last.before).current_step
        pre == WizardOf(At(2).sess)
        post == WizardOf(At(3).sess)
    IN /\ At(1).i = k + 1 /\ pre.current_step = k + 1
       /\ post.current_step = k + 2
       /\ post.step_data = [pre.step_data EXCEPT ![k + 1] = IF At(2).arg = "{v}" THEN "{v}" ELSE @]
       /\ pre.step_data = WizardOf(last.before).step_data
       /\ \E j \in DOMAIN post.completed_steps : post.completed_steps[j] = k + 1
       /\ k + 2 < steps =>
            /\ Events("step") = {1, 3} /\ At(3).i = k + 2
            /\ Events("complete") = {} =>
                 /\ WizardOf(last.after).current_step = k + 2
                 /\ WizardOf(store[last.key]).current_step = k + 2
       /\ k + 2 >= steps =>
            /\ Events("step") = {1}
            /\ At(3).ev = "complete"

\* C27 witness: one message takes the wizard from step 0 to step 2, running
\* the handlers of steps 1 and 2 and recording data under step 1 only.
C27_Witness ==
  /\ NextAfterAutoAdvance
  /\ WizardOf(last.before).current_step = 0
  /\ At(2).arg = "{v}"
  /\ Events("step") = {1, 3}
  /\ ~last.raised
  /\ WizardOf(store[last.key]).current_step = 2
  /\ WizardOf(store[last.key]).step_data[1] = "{v}"
  /\ WizardOf(store[last.key]).step_data[0] = "absent"

\* The previous() and jump_to(i) calls of the update made on a wizard state.
NavCalls == {j \in Events("prev") \cup Events("jump") : WizardOf(At(j).sess).present}

\* The step the call logged at j asks for.
NavTarget(j) ==
  IF At(j).ev = "prev" THEN WizardOf(At(j).sess).current_step - 1 ELSE At(j).i

JumpRange == -1 .. NumSteps

\* C28: previous() at index 0 and jump_to(i) with i outside 0..N-1 return
\* False, execute no step handler and leave the wizard state as it is;
\* otherwise previous() sets current_step to k - 1 and jump_to(i) sets it to i,
\* nothing else of the wizard state changes, and the handler of that step is
\* executed, once when it does not navigate itself. Stated for the calls made
\* during updates and, with the return values, for a call made on the session
\* of any conversation between two updates.
C28_NavigationInBounds ==
  /\ busy =>
       \A j \in NavCalls :
         LET pre == WizardOf(At(j).sess)
             t == NavTarget(j)
         IN /\ 0 <= t /\ t < steps =>
                 /\ j + 1 \in DOMAIN last.log
                 /\ At(j + 1).ev = "step" /\ At(j + 1).who = "W" /\ At(j + 1).i = t
                 /\ WizardOf(At(j + 1).sess) = [pre EXCEPT !.current_step = t]
            /\ ~(0 <= t /\ t < steps) /\ j + 1 \in DOMAIN last.log =>
                 /\ At(j + 1).ev # "step"
                 /\ At(j + 1).sess = At(j).sess
  /\ ~busy =>
       \A c \in Chats :
         \A m \in {ContextAfterStage(c, <<>>)} :
           m.scene = "W" /\ WizardOf(m.sess).present =>
             LET pre == WizardOf(m.sess)
             IN /\ \A idx \in JumpRange :
                     \A r \in {JumpToStep(m, "W", idx)} :
                       IF 0 <= idx /\ idx < steps
                       THEN /\ r.ret = "True"
                            /\ Len(StepsOf(r.log)) = 1 /\ StepsOf(r.log)[1].i = idx
                            /\ WizardOf(r.sess) = [pre EXCEPT !.current_step = idx]
                       ELSE /\ r.ret = "False"
                            /\ StepsOf(r.log) = <<>>
                            /\ r.sess = m.sess /\ r.store = m.store
                /\ \A r \in {PreviousStep(m, "W")} :
                     IF pre.current_step > 0
                     THEN /\ r.ret = "True"
                          /\ Len(StepsOf(r.log)) = 1
                          /\ StepsOf(r.log)[1].i = pre.current_step - 1
                          /\ WizardOf(r.sess) = [pre EXCEPT !.current_step = @ - 1]
                     ELSE /\ r.ret = "False"
                          /\ StepsOf(r.log) = <<>>
                          /\ r.sess = m.sess /\ r.store = m.store

\* C28 witness: in one update a step handler goes back with previous(), and the
\* handler so executed calls jump_to(N), which is refused; the wizard stays
\* where previous() put it.
C28_Witness ==
  /\ busy /\ ~last.raised
  /\ \E j \in NavCalls, b \in NavCalls :
       /\ j < b
       /\ At(j).ev = "prev" /\ WizardOf(At(j).sess).current_step = 2
       /\ At(b).ev = "jump" /\ At(b).i = NumSteps
       /\ WizardOf(At(b).sess).current_step = 1
  /\ WizardOf(store[last.key]).current_step = 1
  /\ store[last.key].scene.id = "W"

\* ctx.session over the update: as loaded, at each event, at the end.
Snapshots == <<last.before>> \o [j \in DOMAIN last.log |-> At(j).sess] \o <<last.after>>

\* What happens between snapshot n and the next: the message routing for the
\* first, the event logged at n - 1 and what it stands for otherwise.
StepBetween(n) == IF n = 1 THEN "message" ELSE At(n - 1).ev

\* The events at which a wizard session begins or ends.
Bounding == {"enter", "enterH", "entered", "reenter", "leave", "leaveH", "complete"}

\* The session holds a state of the wizard W.
InWizard(sess) == sess.scene.id = "W" /\ WizardOf(sess).present

CommandInWizard ==
  /\ busy /\ last.routed = "W" /\ StartsWithSlash(last.text)
  /\ WizardOf(last.before).present

\* C30: a message whose text starts with "/", received while the wizard is
\* active, executes no step handler and leaves current_step, step_data and
\* completed_steps as they were.
C30_CommandLeavesWizardAlone ==
  CommandInWizard =>
    /\ Events("step") = {}
    /\ WizardOf(last.after).current_step = WizardOf(last.before).current_step
    /\ WizardOf(last.after).step_data = WizardOf(last.before).step_data
    /\ WizardOf(last.after).completed_steps = WizardOf(last.before).completed_steps

\* The calls of the stage made by handlers of the update.
StageCalls == Events("enter") \cup Events("reenter") \cup Events("leave")

\* C30 as the code has it: the wizard's own message handler does nothing with
\* such a message, and the handlers of the outer chain run on it as on any
\* update. Step handlers run, and the wizard state changes, exactly as far as
\* one of those handlers enters, re-enters or leaves a scene.
C30_WizardItselfIgnoresCommand ==
  /\ CommandInWizard =>
       /\ last.log # <<>> => At(1).ev \in {"outer", "catch", "logged"} /\ At(1).sess = last.before
       /\ \A j \in Events("step") : \E x \in Events("enter") \cup Events("reenter") : x < j
       /\ StageCalls = {} => last.after.scene = last.before.scene
  /\ ~busy =>
       \A c \in Chats : \A t \in {u \in Texts : StartsWithSlash(u)} :
         \A m \in {[ContextAfterStage(c, <<>>) EXCEPT !.text = t]} :
           m.scene = "W" => HandleWizardMessage(m, "W") = m

\* The leave handlers of the update that raised.
RaisedLeaves == {j \in Events("leaveH") : At(j).i \in raisingLeave}

\* C31: when a leave handler raises during leave_scene, the leave handlers
\* registered after it do not run, the "__scene" record is not deleted and
\* ctx.scene is not cleared: nothing further is done with the session, and
\* the scene is still the one recorded for the conversation when the update
\* has been processed.
C31_RaisingLeaveKeepsScene ==
  busy =>
    \A j \in RaisedLeaves :
      /\ \A x \in Events("leaveH") : x <= j
      /\ \A x \in DOMAIN last.log : x > j => At(x).ev \in {"catch", "logged"}
      /\ last.raised
      /\ At(j).sess.scene.id = At(j).who /\ At(j).scene = At(j).who
      /\ last.after = At(j).sess
      /\ last.scene = At(j).who
      /\ store[last.key] = At(j).sess
      /\ GetCurrentScene(store[last.key], last.time) = At(j).who

\* C31 witness: the first leave handler of scene A raises when a handler of A
\* leaves the scene; A stays recorded.
C31_Witness ==
  /\ busy /\ last.raised
  /\ raisingLeave = {1}
  /\ \E j \in RaisedLeaves : At(j).who = "A" /\ At(j).i = 1 /\ At(j).i < NumLeave("A")
  /\ Events("leave") # {}
  /\ store[last.key].scene.id = "A"

\* The contexts on which a scene's state is written from outside that scene:
\* the stored session of a conversation names a scene T as current, and the
\* write is made through another registered scene S.
ForeignWrites ==
  {w \in [m : {ContextAfterStage(c, <<>>) : c \in Chats}, S : Registered] :
     w.m.scene # "none" /\ w.S # w.m.scene}

\* The scene states written: an empty mapping, a mapping with a wizard entry.
WrittenStates == {EmptyState, [wizard |-> [NoWizard EXCEPT !.present = TRUE, !.current_step = 1]]}

\* C32: set_state or update_state called on a scene S while the session
\* records another scene T as active is ignored for T: the recorded scene, its
\* state and its entered_at are unchanged, and get_state on S then returns an
\* empty mapping.
C32_ForeignWriteIgnored ==
  ~busy =>
    \A w \in ForeignWrites : \A st \in WrittenStates :
      \A r \in {SetState(w.m, w.S, st), UpdateState(w.m, w.S, st.wizard)} :
        /\ r.sess.scene = w.m.sess.scene
        /\ GetState(r, w.S) = EmptyState

\* C32 as the code has it: before the write get_state on S returns an empty
\* mapping; the write replaces T's record by one of S (id S, the state written,
\* entered_at now), so T's state and entered_at are lost and S is the scene
\* the session names, while ctx.scene is still T and no leave handler has run.
C32_ForeignWriteTakesOver ==
  ~busy =>
    \A w \in ForeignWrites : \A st \in WrittenStates :
      /\ GetState(w.m, w.S) = EmptyState
      /\ \A r \in {SetState(w.m, w.S, st), UpdateState(w.m, w.S, st.wizard)} :
           /\ r.sess.scene = [id |-> w.S, state |-> st, entered_at |-> now]
           /\ GetState(r, w.S) = st
           /\ GetState(r, w.m.scene) = EmptyState
           /\ GetCurrentScene(r.sess, now) = w.S
           /\ r.scene = w.m.scene
           /\ r.log = <<>>
           /\ r.sess.k = w.m.sess.k

\* What processing an update yields for its own conversation.
Own(m) ==
  [ sess |-> m.sess, scene |-> m.scene, routed |-> m.routed, log |-> m.log,
    raised |-> m.raised, stored |-> m.store[m.chat] ]

\* The update of conversation c processed on the stores as they are, and on
\* stores in which the session of conversation o is another one.
OnOtherSession(c, t, plan, o, s) ==
  Process([NewContext(c, t, plan) EXCEPT !.store[o] = s])

\* Processing any update of a conversation, whatever its handlers do, comes out
\* the same for that conversation when the other conversation's stored session
\* is replaced by an empty one or by a copy of this conversation's session.
OwnSessionDecides ==
  \A c \in TwoChats, t \in WizardTexts, plan \in StepPlans :
    \A o \in TwoChats \ {c} :
      \A s \in {EmptySession, store[c]} :
        Own(Process(NewContext(c, t, plan))) = Own(OnOtherSession(c, t, plan, o, s))

\* C33: processing updates changes no scene or wizard definition, and with two
\* conversations in the wizard whose updates arrive in any order, an update
\* loads the session of its own conversation, stores its result there, and
\* leaves the other conversation's session (its active scene, current_step,
\* step_data) untouched; what it does is decided by its own session alone.
C33_ConversationsIndependent ==
  /\ [][ /\ steps' = steps /\ chain' = chain /\ raisingLeave' = raisingLeave
         /\ ~busy /\ busy' =>
              /\ last'.before = store[last'.chat]
              /\ store'[last'.chat] = last'.after
              /\ \A k \in Keys \ {last'.chat} : store'[k] = store[k] ]_vars
  /\ [](~busy /\ Len(trace) < MaxTurns - 1 => OwnSessionDecides)

\* C33 witness: conversation c1 is in the wizard at step 1 with data recorded
\* for step 0, c2 is in the wizard too, and an update of c2 has just moved c2
\* to another step.
C33_Witness ==
  /\ busy /\ last.chat = OtherChat /\ ~last.raised
  /\ Len(trace) = MaxTurns
  /\ trace[1].chat = OtherChat /\ trace[2].chat = "c1"
  /\ WizardOf(store["c1"]).present /\ WizardOf(store["c1"]).current_step = 1
  /\ WizardOf(store["c1"]).step_data[0] = "{v}"
  /\ WizardOf(last.before).present /\ WizardOf(last.before).current_step = 0
  /\ WizardOf(store[OtherChat]).current_step = 2

\* --------------------------------------------------------------- polling
\* What a call of the provider's API can do: both calls succeed,
\* receive_notification raises, or delete_notification raises.
ApiOutcomes == {"ok", "receiveRaises", "deleteRaises"}

Saturated(n) == IF n < MaxCount THEN n + 1 ELSE MaxCount

\* get_updates on the provider's queue q: the updates it returns, the
\* notification it has deleted at the provider (0 for none), and whether the
\* except branch was taken.
GetUpdatesNeverDeletes(q, api) ==
  IF api = "receiveRaises" THEN [updates |-> <<>>, ack |-> 0, failed |-> TRUE]
  ELSE IF q = <<>> THEN [updates |-> <<>>, ack |-> 0, failed |-> FALSE]
  ELSE [updates |-> <<Head(q).id>>, ack |-> 0, failed |-> FALSE]

GetUpdates(q, api) ==
  IF api = "receiveRaises" THEN [updates |-> <<>>, ack |-> 0, failed |-> TRUE]
  ELSE IF q = <<>> THEN [updates |-> <<>>, ack |-> 0, failed |-> FALSE]
  ELSE IF Head(q).receipt /\ api = "deleteRaises"
       THEN [updates |-> <<>>, ack |-> 0, failed |-> TRUE]
  ELSE [updates |-> <<Head(q).id>>,
        ack |-> IF Head(q).receipt THEN Head(q).id ELSE 0,
        failed |-> FALSE]

\* The finally clause of start_polling, reached when the loop ends.
PollingStopped(t) ==
  /\ is_polling' = FALSE
  /\ tasks' = [tasks EXCEPT ![t].pc = "done", ![t].wait = "none", ![t].update = 0,
                           ![t].failed = FALSE]
  /\ UNCHANGED <<polling_task, queue, sent, deleted, dispatched>>

\* One pass of `while self.is_polling`, from the test to the next suspension:
\* the fetch, and either the call of handle_update with the update fetched or
\* the sleep of polling_interval when there is none.
Iterate(t, polling) ==
  IF ~polling THEN PollingStopped(t)
  ELSE \E api \in ApiOutcomes :
         LET r == GetUpdates(queue, api)
             after == [tasks[t] EXCEPT !.failed = r.failed,
                                       !.fetched = @ \/ tasks[t].halted]
         IN /\ is_polling' = TRUE
            /\ queue' = IF r.ack # 0 THEN Tail(queue) ELSE queue
            /\ deleted' = IF r.ack # 0 THEN [deleted EXCEPT ![r.ack] = Saturated(@)]
                          ELSE deleted
            /\ IF r.updates = <<>>
               THEN /\ tasks' = [tasks EXCEPT ![t] =
                                   [after EXCEPT !.pc = "sleeping",
                                                 !.wait = "polling_interval",
                                                 !.update = 0]]
                    /\ dispatched' = dispatched
               ELSE /\ tasks' = [tasks EXCEPT ![t] =
                                   [after EXCEPT !.pc = "handling", !.wait = "none",
                                                 !.update = Head(r.updates)]]
                    /\ dispatched' = [dispatched EXCEPT ![Head(r.updates)] = Saturated(@)]
            /\ UNCHANGED <<polling_task, sent>>

\* A coroutine calls start_polling in a task of its own, or launch_async does
\* and keeps the task in polling_task.
StartPolling ==
  \E t \in PollTasks, launched \in BOOLEAN :
    /\ tasks[t].pc = "none"
    /\ \A u \in PollTasks : u < t => tasks[u].pc # "none"
    /\ tasks' = [tasks EXCEPT ![t].pc = "created"]
    /\ polling_task' = IF launched THEN t ELSE polling_task
    /\ UNCHANGED <<is_polling, queue, sent, deleted, dispatched>>
    /\ UNCHANGED botVars

\* The task starts to run start_polling: it returns at once when is_polling
\* is set, and otherwise sets it and enters the loop. A task cancelled before
\* it ran never runs.
Begin ==
  \E t \in PollTasks :
    /\ tasks[t].pc = "created"
    /\ IF tasks[t].cancelled \/ is_polling
       THEN /\ tasks' = [tasks EXCEPT ![t].pc = "done"]
            /\ UNCHANGED <<is_polling, polling_task, queue, sent, deleted, dispatched>>
       ELSE Iterate(t, TRUE)
    /\ UNCHANGED botVars

\* handle_update ends: it returns, and the loop sleeps polling_interval; or it
\* raises, and the loop sleeps retry_delay; or the task was cancelled, and the
\* loop ends.
Dispatched ==
  \E t \in PollTasks :
    /\ tasks[t].pc = "handling"
    /\ IF tasks[t].cancelled THEN PollingStopped(t)
       ELSE \E raises \in BOOLEAN :
              /\ tasks' = [tasks EXCEPT ![t].pc = "sleeping",
                                        ![t].wait = IF raises THEN "retry_delay"
                                                    ELSE "polling_interval",
                                        ![t].update = 0]
              /\ UNCHANGED <<is_polling, polling_task, queue, sent, deleted, dispatched>>
    /\ UNCHANGED botVars

\* asyncio.sleep ends: the loop tests is_polling again; a cancelled task ends.
Wake ==
  \E t \in PollTasks :
    /\ tasks[t].pc = "sleeping"
    /\ IF tasks[t].cancelled THEN PollingStopped(t)
       ELSE Iterate(t, is_polling)
    /\ UNCHANGED botVars

InLoop(t) == tasks[t].pc \in {"handling", "sleeping"}

\* stop(): is_polling = False, and polling_task, when there is one that is not
\* done, is cancelled.
Stop ==
  /\ is_polling' = FALSE
  /\ tasks' = [t \in PollTasks |->
                 [tasks[t] EXCEPT !.halted = @ \/ InLoop(t),
                                  !.cancelled = @ \/ (t = polling_task /\ tasks[t].pc # "done")]]
  /\ UNCHANGED <<polling_task, queue, sent, deleted, dispatched>>
  /\ UNCHANGED botVars

\* The provider queues a notification, with or without a receiptId.
Arrive ==
  /\ sent < MaxNotifications
  /\ \E receipt \in BOOLEAN :
       queue' = Append(queue, [id |-> sent + 1, receipt |-> receipt])
  /\ sent' = sent + 1
  /\ UNCHANGED <<is_polling, polling_task, tasks, deleted, dispatched>>
  /\ UNCHANGED botVars

NextPolling == StartPolling \/ Begin \/ Dispatched \/ Wake \/ Stop \/ Arrive

InitPolling ==
  InitWith({"memory"}, {TRUE}, {TRUE}, {NumSteps}) /\ chain = OuterChain /\ keyGenerator = "default" /\ jumpTargets = {} /\ raisingLeave = {}

SpecPolling == InitPolling /\ [][NextPolling]_vars


\* C34: in the polling loop a failed fetch does not end polling, and the loop
\* then waits the retry delay, not the polling interval, before it fetches
\* again; an update is handled to completion before the next fetch.
C34_FailedFetchWaitsRetryDelay ==
  \A t \in PollTasks :
    /\ tasks[t].failed => tasks[t].pc = "sleeping" /\ tasks[t].wait = "retry_delay"
    /\ tasks[t].pc = "handling" => tasks[t].update # 0 /\ dispatched[tasks[t].update] > 0

\* What holds instead: after a failed fetch the loop is still running and
\* sleeps the polling interval.
C34_FailedFetchWaitsPollingInterval ==
  \A t \in PollTasks :
    tasks[t].failed => tasks[t].pc = "sleeping" /\ tasks[t].wait = "polling_interval"

\* A loop has just failed to fetch.
C34_FailedFetch == \E t \in PollTasks : tasks[t].failed

InQueue(n) == \E i \in 1..Len(queue) : queue[i].id = n

HasReceipt(n) == \E i \in 1..Len(queue) : queue[i].id = n /\ queue[i].receipt

\* C35: a notification with a receipt id is deleted at the provider at most
\* once, has been handed to handle_update exactly once when it is deleted and
\* never before, and is not fetched again whatever its handling does; a fetch
\* on an empty queue deletes nothing and dispatches nothing.
C35_AcknowledgedOnceBeforeDispatch ==
  /\ [](\A n \in Notifications :
          /\ deleted[n] <= 1
          /\ HasReceipt(n) => deleted[n] = 0 /\ dispatched[n] = 0
          /\ deleted[n] = 1 => dispatched[n] = 1 /\ ~InQueue(n)
          /\ n <= sent /\ ~InQueue(n) => deleted[n] = 1
          /\ n > sent => deleted[n] = 0 /\ dispatched[n] = 0)
  /\ [][queue = <<>> => deleted' = deleted /\ dispatched' = dispatched]_vars

\* C35 witness: notification 1 was deleted and dispatched once, its handling
\* has ended, and the same loop has fetched, deleted and dispatched
\* notification 2, which is being handled.
C35_Witness ==
  /\ deleted[1] = 1 /\ dispatched[1] = 1
  /\ deleted[2] = 1 /\ dispatched[2] = 1
  /\ tasks[1].pc = "handling" /\ tasks[1].update = 2
  /\ tasks[2].pc = "none"
  /\ queue = <<>>

\* C40: at most one polling loop runs at any time, and a loop that was
\* running when stop() was called fetches no more.
C40_SinglePollingLoop ==
  /\ Cardinality({t \in PollTasks : InLoop(t) /\ ~tasks[t].cancelled}) <= 1
  /\ \A t \in PollTasks : ~tasks[t].fetched

\* A loop that never was cancelled fetches after stop() was called on it.
C40_FetchAfterStop ==
  \E t \in PollTasks : tasks[t].fetched /\ ~tasks[t].cancelled /\ polling_task = 0


\* How often the i-th leave handler of the scene sid ran in the events of log.
LeaveRuns(log, sid, i) ==
  Cardinality({j \in 1..Len(log) : log[j].ev = "leaveH" /\ log[j].who = sid /\ log[j].i = i})

\* The record of m's session names another scene, or none, in r, and the
\* leave handlers of the scene it named did not each run once on the way.
ChangedUnleft(m, r) ==
  /\ r.sess.scene.id # m.sess.scene.id
  /\ \E i \in 1..NumLeave(m.sess.scene.id) : LeaveRuns(r.log, m.sess.scene.id, i) # 1

\* The contexts whose session records a scene, between two updates.
Recorded == {m \in {ContextAfterStage(c, <<>>) : c \in Chats} : m.sess.scene.id # "none"}

\* The calls that can change the record of m: stage.enter of another scene
\* when the recorded scene has expired, stage.reset_scene, and set_state,
\* update_state, leave_scene, reenter on a scene other than the recorded one.
RecordChanges(m) ==
  {ResetScene(m)}
  \cup (IF m.scene = "none"
        THEN {StageEnter(m, S) : S \in Registered \ {m.sess.scene.id}} ELSE {})
  \cup UNION {{SetState(m, S, EmptyState), UpdateState(m, S, InitialWizard),
               LeaveScene(m, S), Reenter(m, S)} :
                S \in Registered \ {m.sess.scene.id}}

\* C36: the scene recorded in a conversation's session changes from A to
\* another scene or to none only after A's leave handlers have run, each once
\* since A was entered: in an update that ends without error, and on each
\* call that can change the record.
C36_RecordChangesOnlyAfterLeave ==
  /\ busy /\ ~last.raised /\ last.before.scene.id # "none"
       /\ last.after.scene.id # last.before.scene.id
     => \A i \in 1..NumLeave(last.before.scene.id) :
          LeaveRuns(last.log, last.before.scene.id, i) >= 1
  /\ ~busy => \A m \in Recorded : \A r \in RecordChanges(m) : ~ChangedUnleft(m, r)

\* An update has replaced the record of the expired scene B by that of A and
\* no leave handler of B has run.
C36_ExpiredSceneReplaced ==
  /\ busy /\ ~last.raised
  /\ last.before.scene.id = "B" /\ last.after.scene.id = "A"
  /\ LeaveRuns(last.log, "B", 1) = 0

\* What the calls do instead: each of them, but leave_scene and reenter of a
\* scene whose leave handler raises, changes the record while no leave handler
\* of the recorded scene runs.
C36_RecordChangesWithoutLeave ==
  ~busy => \A m \in Recorded : \A r \in RecordChanges(m) :
             /\ \A i \in 1..NumLeave(m.sess.scene.id) : LeaveRuns(r.log, m.sess.scene.id, i) = 0
             /\ ~r.err => r.sess.scene.id # m.sess.scene.id


\* bot.use(session(FileSessionStore(path))), the bot's session manager on the
\* same store or on its own.
InitFile ==
  InitWith({"file"}, BOOLEAN, {TRUE}, {NumSteps}) /\ chain = OuterChain /\ keyGenerator = "default" /\ jumpTargets = {} /\ raisingLeave = {}

SpecFile == InitFile /\ [][NextRecorded]_vars

\* C37: with a file store behind the session middleware, when an update has
\* been processed the file holds, for its conversation, the final session of
\* the update, whether the session manager uses that store or another.
C37_FileHoldsFinalSession ==
  busy => disk[last.key] = last.after

\* What holds: the file holds the final session when the session manager
\* saves into the file store, and otherwise the session as it was loaded.
C37_FileHoldsLoadedSession ==
  busy => disk[last.key] = IF shared THEN last.after ELSE last.before

\* A handler has changed the session and the file has not got the change.
C37_FileLags ==
  busy /\ ~shared /\ ~last.raised /\ last.after # last.before /\ disk[last.key] # last.after


\* The updates of the conversation of the i-th update that came before it.
Earlier(i) == {j \in 1..(i - 1) : trace[j].chat = trace[i].chat}

\* The session the i-th update is to load: the final session of the latest
\* earlier update of its conversation, an empty one when there is none.
OwnLatest(i) ==
  IF Earlier(i) = {} THEN EmptySession
  ELSE trace[CHOOSE j \in Earlier(i) : \A k \in Earlier(i) : k <= j].after

\* C38: with the updates of two conversations processed one after the other
\* in any order, each update loads the session its own conversation's latest
\* update ended with, and an empty session when it is the first of its
\* conversation, whatever updates of the other conversation wrote in between.
C38_SessionsIsolated ==
  \A i \in 1..Len(trace) : trace[i].before = OwnLatest(i)

\* C38 witness: c1 enters the wizard; the first update of c2 then loads an
\* empty session and ends with another session than c1's; the next update of
\* c1 loads what c1's first update left.
C38_Witness ==
  /\ Len(trace) = 3
  /\ trace[1].chat = "c1" /\ trace[2].chat = OtherChat /\ trace[3].chat = "c1"
  /\ trace[1].after.scene.id = "W"
  /\ trace[2].before = EmptySession
  /\ trace[2].after # EmptySession /\ trace[2].after # trace[1].after
  /\ trace[3].before = trace[1].after
  /\ trace[3].after # trace[3].before


\* The update processed carries a text that starts with "/" and has no token
\* after the slash.
BareSlash == busy /\ StartsWithSlash(last.text) /\ ~HasToken(last.text)

\* C39: for a text that starts with "/" and has no token after the slash, the
\* command-gated handlers are skipped without raising, the handler registered
\* after them runs, and get_command() returns a value.
C39_BareSlashSkipsCommand ==
  BareSlash =>
    /\ ~last.raised
    /\ EventsOf("outer", "track") # {}
    /\ ~GetCommandRaises(last.text)

\* What happens instead: the first command-gated handler raises, the error
\* goes to handle_update's except branch, no handler registered after it runs,
\* and get_command() raises too; for a text with a token after the slash that
\* names no command nothing raises in the gating, and get_command() returns
\* the token.
C39_BareSlashRaises ==
  /\ BareSlash =>
       /\ last.raised
       /\ Events("outer") = {}
       /\ GetCommandRaises(last.text)
  /\ busy /\ last.text = <<"/", "x">> /\ last.routed = "none" /\ ~last.raised =>
       /\ EventsOf("outer", "track") # {}
       /\ GetCommand(last.text) = <<"x">>

====
